---- MODULE Spec2Model ----
(***************************************************************************)
(* Model of the aks-mcp tool handlers: the Azure CLI wrappers of           *)
(* tools/aks.py, the k8sgpt wrappers of tools/k8s.py and the weather tools *)
(* of tools/weather.py.                                                    *)
(*                                                                         *)
(* A Python str is a sequence of chunks (TLA+ strings); concatenation and  *)
(* f-string interpolation are sequence concatenation, the empty str is     *)
(* <<>>.  A command is a sequence of argv tokens.  An optional parameter   *)
(* is <<>> when the caller leaves it out and <<v>> when it is supplied.    *)
(***************************************************************************)
EXTENDS Integers, Sequences, FiniteSets, TLC

(***************************************************************************)
(* Bounds of the model.                                                    *)
(***************************************************************************)
\* largest number of forecast periods in a forecast payload
MaxPeriods == 6

(***************************************************************************)
(* Text helpers.                                                           *)
(***************************************************************************)
\* the concatenation of a sequence of texts
RECURSIVE Concat(_)
Concat(ts) == IF ts = <<>> THEN <<>> ELSE Head(ts) \o Concat(Tail(ts))

\* sep.join(ts) of Python, ts a sequence of texts
RECURSIVE Join(_, _)
Join(sep, ts) ==
  IF ts = <<>> THEN <<>>
  ELSE IF Len(ts) = 1 THEN ts[1]
  ELSE ts[1] \o sep \o Join(sep, Tail(ts))

\* needle occurs in text as a contiguous run of chunks ("needle in text")
Contains(needle, text) ==
  \E i \in 0..(Len(text) - Len(needle)) :
     \A k \in 1..Len(needle) : text[i + k] = needle[k]

\* the number of (possibly overlapping) occurrences of needle in text
Count(needle, text) ==
  Cardinality({i \in 0..(Len(text) - Len(needle)) :
                  \A k \in 1..Len(needle) : text[i + k] = needle[k]})

\* str.lower() on the parameter values of the model
Lower(s) ==
  CASE s = "JSON" -> "json"
    [] s = "Json" -> "json"
    [] s = "TEXT" -> "text"
    [] s = "YAML" -> "yaml"
    [] s = "XML" -> "xml"
    [] s = "Weekly" -> "weekly"
    [] s = "AbsoluteMonthly" -> "absolutemonthly"
    [] s = "RelativeMonthly" -> "relativemonthly"
    [] s = "True" -> "true"
    [] s = "False" -> "false"
    [] OTHER -> s

\* str(b) of a Python bool
PyBoolStr(b) == IF b THEN "True" ELSE "False"

\* str.strip() is non-empty: some chunk is not whitespace
StripNonEmpty(s) == s \notin {"", " ", "  "}

(***************************************************************************)
(* JSON values.  Every value is a record of the same shape so that any two *)
(* values can be compared.                                                 *)
(***************************************************************************)
JNull == [t |-> "null", s |-> "", keys |-> <<>>, items |-> <<>>]
JBool(b) == [t |-> "bool", s |-> IF b THEN "true" ELSE "false",
             keys |-> <<>>, items |-> <<>>]
JNum(s) == [t |-> "num", s |-> s, keys |-> <<>>, items |-> <<>>]
JStr(s) == [t |-> "str", s |-> s, keys |-> <<>>, items |-> <<>>]
JArr(items) == [t |-> "arr", s |-> "", keys |-> <<>>, items |-> items]
JObj(keys, items) == [t |-> "obj", s |-> "", keys |-> keys, items |-> items]

NumChunks == {ToString(n) : n \in 0..99}
WsChunks == {" ", "\n", "  "}

\* the index of key k in a key sequence, 0 when absent
KeyIndex(keys, k) ==
  IF \E i \in 1..Len(keys) : keys[i] = k
  THEN CHOOSE i \in 1..Len(keys) : keys[i] = k
  ELSE 0

\* dict[k] = v: a repeated key keeps its position and takes the new value
ObjPut(o, k, v) ==
  LET i == KeyIndex(o.keys, k)
  IN IF i = 0 THEN JObj(Append(o.keys, k), Append(o.items, v))
     ELSE JObj(o.keys, [o.items EXCEPT ![i] = v])

\* "k in d" for a dict d
HasKey(o, k) == KeyIndex(o.keys, k) /= 0

\* d[k] for a dict d that has k
Lookup(o, k) == o.items[KeyIndex(o.keys, k)]

\* bool(v) of Python
Truthy(v) ==
  CASE v.t = "null" -> FALSE
    [] v.t = "bool" -> v.s = "true"
    [] v.t = "num" -> v.s /= "0"
    [] v.t = "str" -> v.s /= ""
    [] OTHER -> v.items /= <<>>

(***************************************************************************)
(* json.loads over a text whose chunks are the lexical tokens.  A string   *)
(* literal is a quote chunk, its content chunks and a closing quote chunk. *)
(***************************************************************************)
ParseFail == [ok |-> FALSE, v |-> JNull, n |-> 0]
ParseOk(v, n) == [ok |-> TRUE, v |-> v, n |-> n]

RECURSIVE SkipWs(_, _)
SkipWs(toks, i) ==
  IF i <= Len(toks) /\ toks[i] \in WsChunks THEN SkipWs(toks, i + 1) ELSE i

\* the content of a string literal whose opening quote is at i - 1
RECURSIVE ParseStrBody(_, _, _)
ParseStrBody(toks, i, acc) ==
  IF i > Len(toks) THEN ParseFail
  ELSE IF toks[i] = "\"" THEN ParseOk(JStr(acc), i + 1)
  ELSE ParseStrBody(toks, i + 1, acc \o toks[i])

RECURSIVE ParseValue(_, _), ParseElems(_, _, _), ParseMembers(_, _, _)
ParseValue(toks, i0) ==
  LET i == SkipWs(toks, i0)
  IN IF i > Len(toks) THEN ParseFail
     ELSE LET c == toks[i]
          IN CASE c = "[" ->
                    LET j == SkipWs(toks, i + 1)
                    IN IF j <= Len(toks) /\ toks[j] = "]"
                       THEN ParseOk(JArr(<<>>), j + 1)
                       ELSE ParseElems(toks, j, <<>>)
               [] c = "{" ->
                    LET j == SkipWs(toks, i + 1)
                    IN IF j <= Len(toks) /\ toks[j] = "}"
                       THEN ParseOk(JObj(<<>>, <<>>), j + 1)
                       ELSE ParseMembers(toks, j, JObj(<<>>, <<>>))
               [] c = "\"" -> ParseStrBody(toks, i + 1, "")
               [] c = "true" -> ParseOk(JBool(TRUE), i + 1)
               [] c = "false" -> ParseOk(JBool(FALSE), i + 1)
               [] c = "null" -> ParseOk(JNull, i + 1)
               [] c \in NumChunks -> ParseOk(JNum(c), i + 1)
               [] OTHER -> ParseFail

\* the elements of an array from position i on, up to the closing bracket
ParseElems(toks, i, acc) ==
  LET r == ParseValue(toks, i)
  IN IF ~r.ok THEN ParseFail
     ELSE LET j == SkipWs(toks, r.n)
          IN IF j > Len(toks) THEN ParseFail
             ELSE IF toks[j] = "]" THEN ParseOk(JArr(Append(acc, r.v)), j + 1)
             ELSE IF toks[j] = "," THEN ParseElems(toks, j + 1, Append(acc, r.v))
             ELSE ParseFail

\* the members of an object from position i on, up to the closing brace
ParseMembers(toks, i0, acc) ==
  LET i == SkipWs(toks, i0)
  IN IF i > Len(toks) \/ toks[i] /= "\"" THEN ParseFail
     ELSE LET k == ParseStrBody(toks, i + 1, "")
          IN IF ~k.ok THEN ParseFail
             ELSE LET j == SkipWs(toks, k.n)
                  IN IF j > Len(toks) \/ toks[j] /= ":" THEN ParseFail
                     ELSE LET r == ParseValue(toks, j + 1)
                          IN IF ~r.ok THEN ParseFail
                             ELSE LET m == SkipWs(toks, r.n)
                                      o == ObjPut(acc, k.v.s, r.v)
                                  IN IF m > Len(toks) THEN ParseFail
                                     ELSE IF toks[m] = "}" THEN ParseOk(o, m + 1)
                                     ELSE IF toks[m] = ","
                                          THEN ParseMembers(toks, m + 1, o)
                                     ELSE ParseFail

\* json.loads(text): ok is FALSE where Python raises json.JSONDecodeError
json_loads(text) ==
  LET r == ParseValue(text, 1)
  IN IF r.ok /\ SkipWs(text, r.n) > Len(text) THEN r ELSE ParseFail

\* str(e) of the json.JSONDecodeError that json.loads raises
JSONDecodeErrorText == <<"Expecting value: line 1 column 1 (char 0)">>

(***************************************************************************)
(* json.dumps(v, indent=2) and str(v).                                     *)
(***************************************************************************)
\* n copies of the text t
RECURSIVE Repeat(_, _)
Repeat(t, n) == IF n = 0 THEN <<>> ELSE t \o Repeat(t, n - 1)

\* the indentation unit of json.dumps(..., indent=2)
IndentUnit == <<" ", " ">>

RECURSIVE DumpsAt(_, _), DumpItems(_, _, _), DumpMembers(_, _, _)
DumpsAt(v, depth) ==
  CASE v.t = "null" -> <<"null">>
    [] v.t = "bool" -> <<v.s>>
    [] v.t = "num" -> <<v.s>>
    [] v.t = "str" -> <<"\"">> \o (IF v.s = "" THEN <<>> ELSE <<v.s>>) \o <<"\"">>
    [] v.t = "arr" ->
         IF v.items = <<>> THEN <<"[", "]">>
         ELSE <<"[">> \o DumpItems(v.items, 1, depth + 1)
              \o <<"\n">> \o Repeat(IndentUnit, depth) \o <<"]">>
    [] OTHER ->
         IF v.items = <<>> THEN <<"{", "}">>
         ELSE <<"{">> \o DumpMembers(v, 1, depth + 1)
              \o <<"\n">> \o Repeat(IndentUnit, depth) \o <<"}">>

DumpItems(items, i, depth) ==
  IF i > Len(items) THEN <<>>
  ELSE <<"\n">> \o Repeat(IndentUnit, depth) \o DumpsAt(items[i], depth)
       \o (IF i < Len(items) THEN <<",">> ELSE <<>>)
       \o DumpItems(items, i + 1, depth)

DumpMembers(o, i, depth) ==
  IF i > Len(o.items) THEN <<>>
  ELSE <<"\n">> \o Repeat(IndentUnit, depth)
       \o <<"\"", o.keys[i], "\"", ":", " ">> \o DumpsAt(o.items[i], depth)
       \o (IF i < Len(o.items) THEN <<",">> ELSE <<>>)
       \o DumpMembers(o, i + 1, depth)

\* json.dumps(v, indent=2)
json_dumps(v) == DumpsAt(v, 0)

RECURSIVE PyRepr(_), ReprItems(_, _), ReprMembers(_, _)
\* repr(v) of the Python object json.loads returns
PyRepr(v) ==
  CASE v.t = "null" -> <<"None">>
    [] v.t = "bool" -> <<PyBoolStr(v.s = "true")>>
    [] v.t = "num" -> <<v.s>>
    [] v.t = "str" -> <<"'">> \o (IF v.s = "" THEN <<>> ELSE <<v.s>>) \o <<"'">>
    [] v.t = "arr" -> <<"[">> \o ReprItems(v.items, 1) \o <<"]">>
    [] OTHER -> <<"{">> \o ReprMembers(v, 1) \o <<"}">>

ReprItems(items, i) ==
  IF i > Len(items) THEN <<>>
  ELSE PyRepr(items[i]) \o (IF i < Len(items) THEN <<", ">> ELSE <<>>)
       \o ReprItems(items, i + 1)

ReprMembers(o, i) ==
  IF i > Len(o.items) THEN <<>>
  ELSE <<"'", o.keys[i], "'", ": ">> \o PyRepr(o.items[i])
       \o (IF i < Len(o.items) THEN <<", ">> ELSE <<>>)
       \o ReprMembers(o, i + 1)

\* str(v), as an f-string field renders v
PyStr(v) ==
  IF v.t = "str" THEN (IF v.s = "" THEN <<>> ELSE <<v.s>>) ELSE PyRepr(v)

\* d.get(k) rendered in an f-string: None when the key is absent
GetStr(o, k) == IF HasKey(o, k) THEN PyStr(Lookup(o, k)) ELSE <<"None">>

\* d.get(k, dflt) rendered in an f-string
GetStrOr(o, k, dflt) == IF HasKey(o, k) THEN PyStr(Lookup(o, k)) ELSE <<dflt>>

(***************************************************************************)
(* Python exceptions the handlers can meet.                                *)
(***************************************************************************)
\* type(v).__name__ of the Python object json.loads returns
TypeName(v) ==
  CASE v.t = "null" -> "NoneType"
    [] v.t = "bool" -> "bool"
    [] v.t = "num" -> "int"
    [] v.t = "str" -> "str"
    [] v.t = "arr" -> "list"
    [] OTHER -> "dict"

Ok(text) == [ok |-> TRUE, text |-> text, exc |-> "", msg |-> <<>>]
Exc(exc, msg) == [ok |-> FALSE, text |-> <<>>, exc |-> exc, msg |-> msg]

\* v.attr on a value without that attribute
AttributeError(v, attr) ==
  Exc("AttributeError",
      <<"'", TypeName(v), "' object has no attribute '", attr, "'">>)

\* iteration over a value that is not iterable
NotIterable(v) ==
  Exc("TypeError", <<"'", TypeName(v), "' object is not iterable">>)

\* d[k] on a dict without k: str(KeyError(k)) is repr(k)
KeyError(k) == Exc("KeyError", <<"'", k, "'">>)

\* v[k] with a str key k on a value that is not a dict
NotSubscriptable(v) ==
  CASE v.t = "arr" ->
         Exc("TypeError", <<"list indices must be integers or slices, not str">>)
    [] v.t = "str" ->
         Exc("TypeError", <<"string indices must be integers, not 'str'">>)
    [] OTHER ->
         Exc("TypeError", <<"'", TypeName(v), "' object is not subscriptable">>)

\* str(e) of the FileNotFoundError subprocess.run raises for a missing program
FileNotFoundText(prog) == <<"[Errno 2] No such file or directory: '", prog, "'">>

\* str(e) of the PermissionError subprocess.run raises for a program that
\* cannot be executed
PermissionText(prog) == <<"[Errno 13] Permission denied: '", prog, "'">>

\* the names the module tools/aks.py binds by its import statements
AksImports == {"FastMCP", "Any", "subprocess", "json", "logging"}

(***************************************************************************)
(* External calls and what a handler does next.                            *)
(***************************************************************************)
NoCall == [kind |-> "none", cmd |-> <<>>, text |-> TRUE, env |-> <<>>, url |-> JNull]

\* subprocess.run(cmd, capture_output=True, text=True, check=True)
Run(cmd) == [kind |-> "proc", cmd |-> cmd, text |-> TRUE, env |-> <<>>, url |-> JNull]

\* subprocess.run(cmd, capture_output=True, check=True): output stays bytes
RunBytes(cmd) == [kind |-> "proc", cmd |-> cmd, text |-> FALSE, env |-> <<>>, url |-> JNull]

\* subprocess.run(cmd, ..., env=env) with the overlay added to os.environ
RunEnv(cmd, env) == [kind |-> "proc", cmd |-> cmd, text |-> TRUE, env |-> env, url |-> JNull]

\* client.get(url, ...) inside make_nws_request(url)
HttpGet(url) == [kind |-> "http", cmd |-> <<>>, text |-> TRUE, env |-> <<>>, url |-> url]

\* the handler returns text
Return(text) == [kind |-> "return", text |-> text, exc |-> "", call |-> NoCall]
\* the handler lets the exception exc escape
Raise(exc) == [kind |-> "raise", text |-> <<>>, exc |-> exc, call |-> NoCall]
\* the handler issues an external call and waits for it
Await(call) == [kind |-> "await", text |-> <<>>, exc |-> "", call |-> call]

\* "except Exception as e: return f'Unexpected error: {str(e)}'"
Unexpected(msg) == Return(<<"Unexpected error: ">> \o msg)

\* outcomes of an external call
ProcExit(rc, out, err) ==
  [kind |-> "exit", rc |-> rc, stdout |-> out, stderr |-> err, status |-> 0]
ProcNotFound == [kind |-> "notfound", rc |-> 0, stdout |-> <<>>, stderr |-> <<>>, status |-> 0]
ProcDenied == [kind |-> "denied", rc |-> 0, stdout |-> <<>>, stderr |-> <<>>, status |-> 0]
HttpReply(status, body) ==
  [kind |-> "reply", rc |-> 0, stdout |-> body, stderr |-> <<>>, status |-> status]
HttpFailed(why) ==
  [kind |-> why, rc |-> 0, stdout |-> <<>>, stderr |-> <<>>, status |-> 0]

\* subprocess.run(..., check=True) raised CalledProcessError
CalledProcessError(o) == o.kind = "exit" /\ o.rc /= 0

\* str(e) of the exception other than CalledProcessError that
\* subprocess.run(cmd) raised
SpawnErrorText(o, cmd) ==
  IF o.kind = "notfound" THEN FileNotFoundText(cmd[1]) ELSE PermissionText(cmd[1])

\* the skeleton with a retry: the command is run a second time after a
\* nonzero exit
AzRun_retrying(cmd, outs, success, prefix) ==
  IF outs = <<>> THEN Await(Run(cmd))
  ELSE LET o == outs[Len(outs)]
       IN IF o.kind = "exit" /\ o.rc = 0 THEN Return(success)
          ELSE IF CalledProcessError(o)
          THEN (IF Len(outs) = 1 THEN Await(Run(cmd))
                ELSE Return(<<prefix>> \o o.stderr))
          ELSE Unexpected(SpawnErrorText(o, cmd))

\* the try/except skeleton of the handlers that ignore the command's output:
\* run cmd, return the success message, or the error prefix and e.stderr
AzRun(cmd, outs, success, prefix) ==
  IF outs = <<>> THEN Await(Run(cmd))
  ELSE LET o == outs[1]
       IN IF o.kind = "exit" /\ o.rc = 0 THEN Return(success)
          ELSE IF CalledProcessError(o) THEN Return(<<prefix>> \o o.stderr)
          ELSE Unexpected(SpawnErrorText(o, cmd))

\* an optional parameter: <<>> is absent, <<v>> is supplied
Absent == <<>>
Given(o) == o /= <<>>
\* the value bound to a parameter declared with a default
Default(o, d) == IF o = <<>> THEN d ELSE o[1]
\* "if p:" for an optional str parameter whose default is None
TruthyStr(o) == o /= <<>> /\ o[1] /= ""
\* "if p:" for an optional bool parameter whose default is None
TruthyBool(o) == o /= <<>> /\ o[1]
\* "if p:" for an optional int parameter whose default is None
TruthyInt(o) == o /= <<>> /\ o[1] /= 0

(***************************************************************************)
(* tools/aks.py: handlers that run one command and ignore its output.      *)
(***************************************************************************)
set_aks_credentials(a, outs) ==
  AzRun(<<"az", "aks", "get-credentials", "--resource-group", a.resource_group_name,
          "--name", a.cluster_name, "--overwrite-existing">>, outs,
        <<"Credentials for AKS cluster '", a.cluster_name, "' set successfully.">>,
        "Error executing Azure CLI command: ")

create_aks_cluster_cmd(a) ==
  <<"az", "aks", "create", "--resource-group", a.resource_group_name,
    "--name", a.cluster_name,
    "--node-count", ToString(Default(a.node_count, 1)),
    "--node-vm-size", Default(a.node_vm_size, "Standard_DS2_v2"),
    "--generate-ssh-keys">>
  \o (IF TruthyStr(a.kubernetes_version)
      THEN <<"--kubernetes-version", a.kubernetes_version[1]>> ELSE <<>>)

\* create_aks_cluster without check=True: a nonzero exit raises nothing and
\* the success message is returned
create_aks_cluster_unchecked(a, outs) ==
  IF outs = <<>> THEN Await(Run(create_aks_cluster_cmd(a)))
  ELSE IF outs[1].kind = "exit"
  THEN Return(<<"AKS cluster '", a.cluster_name, "' created successfully.">>)
  ELSE Unexpected(SpawnErrorText(outs[1], create_aks_cluster_cmd(a)))

create_aks_cluster(a, outs) ==
  AzRun(create_aks_cluster_cmd(a), outs,
        <<"AKS cluster '", a.cluster_name, "' created successfully.">>,
        "Error creating AKS cluster: ")

delete_aks_cluster(a, outs) ==
  AzRun(<<"az", "aks", "delete", "--resource-group", a.resource_group_name,
          "--name", a.cluster_name, "--yes">>, outs,
        <<"AKS cluster '", a.cluster_name, "' deletion initiated.">>,
        "Error deleting AKS cluster: ")

scale_aks_cluster(a, outs) ==
  AzRun(<<"az", "aks", "scale", "--resource-group", a.resource_group_name,
          "--name", a.cluster_name, "--node-count", ToString(a.node_count)>>, outs,
        <<"AKS cluster '", a.cluster_name, "' scaled to ", ToString(a.node_count),
          " nodes.">>,
        "Error scaling AKS cluster: ")

upgrade_aks_cluster(a, outs) ==
  AzRun(<<"az", "aks", "upgrade", "--resource-group", a.resource_group_name,
          "--name", a.cluster_name, "--kubernetes-version", a.kubernetes_version>>,
        outs,
        <<"AKS cluster '", a.cluster_name, "' upgrade to version ",
          a.kubernetes_version, " initiated.">>,
        "Error upgrading AKS cluster: ")

add_aks_nodepool(a, outs) ==
  AzRun(<<"az", "aks", "nodepool", "add", "--resource-group", a.resource_group_name,
          "--cluster-name", a.cluster_name, "--name", a.nodepool_name,
          "--node-count", ToString(Default(a.node_count, 1)),
          "--node-vm-size", Default(a.node_vm_size, "Standard_DS2_v2"),
          "--mode", Default(a.mode, "User")>>, outs,
        <<"Node pool '", a.nodepool_name, "' added to AKS cluster '",
          a.cluster_name, "' successfully.">>,
        "Error adding node pool: ")

delete_aks_nodepool(a, outs) ==
  AzRun(<<"az", "aks", "nodepool", "delete", "--resource-group",
          a.resource_group_name, "--cluster-name", a.cluster_name,
          "--name", a.nodepool_name>>, outs,
        <<"Node pool '", a.nodepool_name, "' deleted from AKS cluster '",
          a.cluster_name, "' successfully.">>,
        "Error deleting node pool: ")

enable_aks_addons(a, outs) ==
  AzRun(<<"az", "aks", "enable-addons", "--resource-group", a.resource_group_name,
          "--name", a.cluster_name, "--addons", a.addons>>, outs,
        <<"Add-ons '", a.addons, "' enabled for AKS cluster '", a.cluster_name,
          "' successfully.">>,
        "Error enabling add-ons: ")

disable_aks_addons(a, outs) ==
  AzRun(<<"az", "aks", "disable-addons", "--resource-group", a.resource_group_name,
          "--name", a.cluster_name, "--addons", a.addons>>, outs,
        <<"Add-ons '", a.addons, "' disabled for AKS cluster '", a.cluster_name,
          "' successfully.">>,
        "Error disabling add-ons: ")

get_aks_credentials_admin(a, outs) ==
  AzRun(<<"az", "aks", "get-credentials", "--resource-group", a.resource_group_name,
          "--name", a.cluster_name, "--admin", "--overwrite-existing">>, outs,
        <<"Admin credentials for AKS cluster '", a.cluster_name,
          "' set successfully.">>,
        "Error getting admin credentials: ")

rotate_aks_certs(a, outs) ==
  AzRun(<<"az", "aks", "rotate-certs", "--resource-group", a.resource_group_name,
          "--name", a.cluster_name>>, outs,
        <<"Certificate rotation initiated for AKS cluster '", a.cluster_name, "'.">>,
        "Error rotating certificates: ")

install_aks_cli(a, outs) ==
  AzRun(<<"az", "aks", "install-cli">>, outs,
        <<"Successfully installed kubectl and kubelogin.">>,
        "Error installing kubectl and kubelogin: ")

start_aks_cluster(a, outs) ==
  AzRun(<<"az", "aks", "start", "--resource-group", a.resource_group_name,
          "--name", a.cluster_name>>, outs,
        <<"AKS cluster '", a.cluster_name, "' is starting.">>,
        "Error starting AKS cluster: ")

stop_aks_cluster(a, outs) ==
  AzRun(<<"az", "aks", "stop", "--resource-group", a.resource_group_name,
          "--name", a.cluster_name>>, outs,
        <<"AKS cluster '", a.cluster_name, "' is stopping.">>,
        "Error stopping AKS cluster: ")

aks_nodepool_scale(a, outs) ==
  AzRun(<<"az", "aks", "nodepool", "scale", "--resource-group",
          a.resource_group_name, "--cluster-name", a.cluster_name,
          "--name", a.nodepool_name, "--node-count", ToString(a.node_count)>>, outs,
        <<"Node pool '", a.nodepool_name, "' in cluster '", a.cluster_name,
          "' scaled to ", ToString(a.node_count), " nodes.">>,
        "Error scaling node pool: ")

aks_nodepool_upgrade(a, outs) ==
  AzRun(<<"az", "aks", "nodepool", "upgrade", "--resource-group",
          a.resource_group_name, "--cluster-name", a.cluster_name,
          "--name", a.nodepool_name, "--kubernetes-version", a.kubernetes_version>>,
        outs,
        <<"Node pool '", a.nodepool_name, "' upgrade to version ",
          a.kubernetes_version, " initiated.">>,
        "Error upgrading node pool: ")

delete_aks_maintenance_config(a, outs) ==
  AzRun(<<"az", "aks", "maintenanceconfiguration", "delete", "--resource-group",
          a.resource_group_name, "--cluster-name", a.cluster_name,
          "--name", a.config_name, "--yes">>, outs,
        <<"Maintenance configuration '", a.config_name, "' deleted.">>,
        "Error deleting maintenance configuration: ")

\* the try/except skeleton of the handlers that return the command's stdout
AzRunOut(cmd, outs, prefix) ==
  IF outs = <<>> THEN Await(Run(cmd))
  ELSE LET o == outs[1]
       IN IF o.kind = "exit" /\ o.rc = 0 THEN Return(o.stdout)
          ELSE IF CalledProcessError(o) THEN Return(<<prefix>> \o o.stderr)
          ELSE Unexpected(SpawnErrorText(o, cmd))

check_aks_acr(a, outs) ==
  AzRunOut(<<"az", "aks", "check-acr", "--resource-group", a.resource_group_name,
             "--name", a.cluster_name, "--acr", a.acr_name>>, outs,
           "Error checking ACR accessibility: ")

aks_command_invoke(a, outs) ==
  AzRunOut(<<"az", "aks", "command", "invoke", "--resource-group",
             a.resource_group_name, "--name", a.cluster_name,
             "--command", a.command>>, outs,
           "Error executing cluster command: ")

\* the command update_aks_cluster builds
update_aks_cluster_cmd(a) ==
  <<"az", "aks", "update", "--resource-group", a.resource_group_name,
    "--name", a.cluster_name, "--yes">>
  \o (IF TruthyStr(a.kubernetes_version)
      THEN <<"--kubernetes-version", a.kubernetes_version[1]>> ELSE <<>>)
  \o (IF Given(a.auto_upgrade_channel)
      THEN <<"--auto-upgrade-channel", a.auto_upgrade_channel[1]>> ELSE <<>>)
  \o (IF Given(a.enable_node_public_ip)
      THEN <<"--enable-node-public-ip",
             Lower(PyBoolStr(a.enable_node_public_ip[1]))>> ELSE <<>>)
  \o (IF TruthyStr(a.tags) THEN <<"--tags", a.tags[1]>> ELSE <<>>)

\* update_aks_cluster reads os.environ first, inside its try block
update_aks_cluster(a, outs) ==
  IF "os" \notin AksImports THEN Unexpected(<<"name 'os' is not defined">>)
  ELSE IF outs = <<>>
       THEN Await(RunEnv(update_aks_cluster_cmd(a), <<"AZURE_CORE_NO_PROMPT=true">>))
  ELSE LET o == outs[1]
       IN IF o.kind = "exit" /\ o.rc = 0
          THEN Return(<<"AKS cluster '", a.cluster_name, "' update initiated.">>)
          ELSE IF CalledProcessError(o)
          THEN Return(<<"Error updating AKS cluster: ">> \o o.stderr)
          ELSE Unexpected(SpawnErrorText(o, update_aks_cluster_cmd(a)))

\* the tokens aks_nodepool_update has put in cmd when it reaches the
\* autoscaler check
aks_nodepool_update_base(a) ==
  <<"az", "aks", "nodepool", "update", "--resource-group", a.resource_group_name,
    "--cluster-name", a.cluster_name, "--name", a.nodepool_name, "--yes">>
  \o (IF Given(a.max_pods) THEN <<"--max-pods", ToString(a.max_pods[1])>> ELSE <<>>)
  \o (IF Given(a.enable_node_public_ip)
      THEN <<"--enable-node-public-ip",
             Lower(PyBoolStr(a.enable_node_public_ip[1]))>> ELSE <<>>)
  \o (IF TruthyStr(a.labels) THEN <<"--labels", a.labels[1]>> ELSE <<>>)
  \o (IF TruthyStr(a.tags) THEN <<"--tags", a.tags[1]>> ELSE <<>>)
  \o (IF TruthyBool(a.disable_cluster_autoscaler)
      THEN <<"--disable-cluster-autoscaler">> ELSE <<>>)

\* "if min_count is None or max_count is None" under enable_cluster_autoscaler
aks_nodepool_update_invalid(a) ==
  TruthyBool(a.enable_cluster_autoscaler)
    /\ (~Given(a.min_count) \/ ~Given(a.max_count))

\* the command aks_nodepool_update runs when the autoscaler check passes
aks_nodepool_update_cmd(a) ==
  aks_nodepool_update_base(a)
  \o (IF TruthyBool(a.enable_cluster_autoscaler)
      THEN <<"--enable-cluster-autoscaler",
             "--min-count", ToString(a.min_count[1]),
             "--max-count", ToString(a.max_count[1])>>
      ELSE <<>>)

\* aks_nodepool_update with the autoscaler check made after the command ran
aks_nodepool_update_late(a, outs) ==
  IF outs = <<>> THEN Await(Run(aks_nodepool_update_base(a)))
  ELSE IF aks_nodepool_update_invalid(a)
  THEN Return(<<"Error: min_count and max_count are required when enabling cluster autoscaler">>)
  ELSE AzRun(aks_nodepool_update_cmd(a), outs,
             <<"Node pool '", a.nodepool_name, "' updated successfully.">>,
             "Error updating node pool: ")

aks_nodepool_update(a, outs) ==
  IF aks_nodepool_update_invalid(a)
  THEN Return(<<"Error: min_count and max_count are required when enabling cluster autoscaler">>)
  ELSE AzRun(aks_nodepool_update_cmd(a), outs,
             <<"Node pool '", a.nodepool_name, "' updated successfully.">>,
             "Error updating node pool: ")

\* the command create_aks_maintenance_config builds
create_aks_maintenance_config_cmd(a) ==
  <<"az", "aks", "maintenanceconfiguration", "create", "--resource-group",
    a.resource_group_name, "--cluster-name", a.cluster_name,
    "--name", a.config_name, "--schedule-type", a.schedule_type>>
  \o (IF Lower(a.schedule_type) = "weekly" /\ TruthyStr(a.day_of_week)
      THEN <<"--day-of-week", a.day_of_week[1]>>
      ELSE IF Lower(a.schedule_type) = "absolutemonthly" /\ TruthyInt(a.day_of_month)
      THEN <<"--day-of-month", ToString(a.day_of_month[1])>>
      ELSE <<>>)
  \o (IF Given(a.start_hour) THEN <<"--start-hour", ToString(a.start_hour[1])>>
      ELSE <<>>)
  \o <<"--duration-hours", ToString(Default(a.duration_hours, 4))>>

create_aks_maintenance_config(a, outs) ==
  AzRun(create_aks_maintenance_config_cmd(a), outs,
        <<"Maintenance configuration '", a.config_name, "' created for cluster '",
          a.cluster_name, "'.">>,
        "Error creating maintenance configuration: ")

(***************************************************************************)
(* tools/aks.py: handlers that parse the command's stdout as JSON.         *)
(***************************************************************************)
\* "\n".join(lines)
Lines(ls) == Join(<<"\n">>, ls)

\* "for e in v": the elements the loop visits, or the TypeError it raises.
\* A dict yields its keys; a str yields its characters, all of type str,
\* and is represented by one element of that type.
Iterate(v) ==
  CASE v.t = "arr" -> [ok |-> TRUE, items |-> v.items, err |-> Ok(<<>>)]
    [] v.t = "obj" ->
         [ok |-> TRUE, items |-> [i \in 1..Len(v.keys) |-> JStr(v.keys[i])],
          err |-> Ok(<<>>)]
    [] v.t = "str" ->
         [ok |-> TRUE, items |-> IF v.s = "" THEN <<>> ELSE <<v>>, err |-> Ok(<<>>)]
    [] OTHER -> [ok |-> FALSE, items |-> <<>>, err |-> NotIterable(v)]

\* the loop "for e in items: lines.extend(body(e))" over the per-element
\* results rs: the first exception ends the loop, otherwise the header lines
\* followed by the lines of every element
Collect(header, rs) ==
  IF \E i \in 1..Len(rs) : ~rs[i].ok
  THEN rs[CHOOSE i \in 1..Len(rs) : ~rs[i].ok /\ \A j \in 1..(i - 1) : rs[j].ok]
  ELSE Ok(Lines(header \o [i \in 1..Len(rs) |-> rs[i].text]))

\* d.get(k, dflt) as a value
GetOr(o, k, dflt) == IF HasKey(o, k) THEN Lookup(o, k) ELSE dflt

\* the lines get_aks_clusters appends for one cluster
cluster_block(c) ==
  IF c.t /= "obj" THEN AttributeError(c, "get")
  ELSE Ok(Lines(<<
         <<"Name: ">> \o GetStr(c, "name"),
         <<"Resource Group: ">> \o GetStr(c, "resourceGroup"),
         <<"Location: ">> \o GetStr(c, "location"),
         <<"Kubernetes Version: ">> \o GetStr(c, "kubernetesVersion"),
         <<"Status: ">> \o GetStr(c, "provisioningState"),
         <<"---">> >>))

\* the body of get_aks_clusters after json.loads
format_aks_clusters(clusters) ==
  IF ~Truthy(clusters) THEN Ok(<<"No AKS clusters found.">>)
  ELSE LET it == Iterate(clusters)
       IN IF ~it.ok THEN it.err
          ELSE Collect(<<>>, [i \in 1..Len(it.items) |-> cluster_block(it.items[i])])

\* the body of show_aks_cluster after json.loads
format_aks_cluster(details) ==
  IF ~Truthy(details) THEN Ok(<<"No AKS cluster found.">>)
  ELSE IF details.t /= "obj" THEN AttributeError(details, "items")
  ELSE Ok(Lines(Concat([i \in 1..Len(details.keys) |->
                  << <<details.keys[i], ": ">> \o PyStr(details.items[i]),
                     <<"---">> >>])))

\* the line for one orchestrator with the tags in the other order
version_line_preview_first(o) ==
  IF o.t /= "obj" THEN AttributeError(o, "get")
  ELSE LET is_preview == Truthy(GetOr(o, "isPreview", JBool(FALSE)))
           is_default == Truthy(GetOr(o, "default", JBool(FALSE)))
           status == (IF is_preview THEN << <<"PREVIEW">> >> ELSE <<>>)
                     \o (IF is_default THEN << <<"DEFAULT">> >> ELSE <<>>)
           status_str == IF status /= <<>>
                         THEN <<" (">> \o Join(<<", ">>, status) \o <<")">>
                         ELSE <<>>
       IN Ok(<<"- ">> \o GetStr(o, "orchestratorVersion") \o status_str)

\* the line get_aks_versions appends for one orchestrator
version_line(o) ==
  IF o.t /= "obj" THEN AttributeError(o, "get")
  ELSE LET is_preview == Truthy(GetOr(o, "isPreview", JBool(FALSE)))
           is_default == Truthy(GetOr(o, "default", JBool(FALSE)))
           status == (IF is_default THEN << <<"DEFAULT">> >> ELSE <<>>)
                     \o (IF is_preview THEN << <<"PREVIEW">> >> ELSE <<>>)
           status_str == IF status /= <<>>
                         THEN <<" (">> \o Join(<<", ">>, status) \o <<")">>
                         ELSE <<>>
       IN Ok(<<"- ">> \o GetStr(o, "orchestratorVersion") \o status_str)

\* the body of get_aks_versions after json.loads
format_aks_versions(versions) ==
  IF versions.t /= "obj" THEN AttributeError(versions, "get")
  ELSE LET it == Iterate(GetOr(versions, "orchestrators", JArr(<<>>)))
       IN IF ~it.ok THEN it.err
          ELSE Collect(<< <<"Available Kubernetes versions:">> >>,
                       [i \in 1..Len(it.items) |-> version_line(it.items[i])])

\* the lines get_aks_nodepool_list appends for one pool
pool_block(p) ==
  IF p.t /= "obj" THEN AttributeError(p, "get")
  ELSE Ok(Lines(<<
         <<"- Name: ">> \o GetStr(p, "name"),
         <<"  Mode: ">> \o GetStr(p, "mode"),
         <<"  VM Size: ">> \o GetStr(p, "vmSize"),
         <<"  Node Count: ">> \o GetStr(p, "count"),
         <<"  OS: ">> \o GetStr(p, "osType"),
         <<"  Kubernetes Version: ">> \o GetStr(p, "orchestratorVersion"),
         <<"  Status: ">> \o GetStr(p, "provisioningState"),
         <<"---">> >>))

\* the body of get_aks_nodepool_list after json.loads
format_nodepool_list(nodepools, cluster_name) ==
  IF ~Truthy(nodepools)
  THEN Ok(<<"No node pools found in AKS cluster '", cluster_name, "'.">>)
  ELSE LET it == Iterate(nodepools)
       IN IF ~it.ok THEN it.err
          ELSE Collect(<< <<"Node pools in AKS cluster '", cluster_name, "':">> >>,
                       [i \in 1..Len(it.items) |-> pool_block(it.items[i])])

\* the Labels section of aks_nodepool_show
labels_section(np) ==
  LET labels == GetOr(np, "nodeLabels", JNull)
  IN IF ~Truthy(labels) THEN Ok(<<>>)
     ELSE IF labels.t /= "obj" THEN AttributeError(labels, "items")
     ELSE Ok(Lines(<< <<"Labels:">> >> \o
               [i \in 1..Len(labels.keys) |->
                  <<"  ", labels.keys[i], ": ">> \o PyStr(labels.items[i])]))

\* the Taints section of aks_nodepool_show
taints_section(np) ==
  LET taints == GetOr(np, "nodeTaints", JNull)
  IN IF ~Truthy(taints) THEN Ok(<<>>)
     ELSE LET it == Iterate(taints)
          IN IF ~it.ok THEN it.err
             ELSE Ok(Lines(<< <<"Taints:">> >> \o
                       [i \in 1..Len(it.items) |-> <<"  ">> \o PyStr(it.items[i])]))

\* the body of aks_nodepool_show after json.loads
format_nodepool(np, nodepool_name) ==
  IF np.t /= "obj" THEN AttributeError(np, "get")
  ELSE LET head == <<
             <<"Node pool '", nodepool_name, "' details:">>,
             <<"Mode: ">> \o GetStr(np, "mode"),
             <<"VM Size: ">> \o GetStr(np, "vmSize"),
             <<"Node Count: ">> \o GetStr(np, "count"),
             <<"OS Type: ">> \o GetStr(np, "osType"),
             <<"Kubernetes Version: ">> \o GetStr(np, "orchestratorVersion"),
             <<"Status: ">> \o GetStr(np, "provisioningState"),
             <<"Max Pods: ">> \o GetStr(np, "maxPods") >>
           l == labels_section(np)
           t == taints_section(np)
       IN IF ~l.ok THEN l
          ELSE IF ~t.ok THEN t
          ELSE Ok(Lines(head
                        \o (IF l.text = <<>> THEN <<>> ELSE <<l.text>>)
                        \o (IF t.text = <<>> THEN <<>> ELSE <<t.text>>)))

\* the lines list_aks_maintenance_configs appends for one configuration
config_block(c) ==
  IF c.t /= "obj" THEN AttributeError(c, "get")
  ELSE LET props == GetOr(c, "properties", JObj(<<>>, <<>>))
       IN IF props.t /= "obj" THEN AttributeError(props, "get")
          ELSE LET window == GetOr(props, "maintenanceWindow", JObj(<<>>, <<>>))
               IN IF window.t /= "obj" THEN AttributeError(window, "get")
                  ELSE LET schedule == GetOr(window, "schedule", JObj(<<>>, <<>>))
                       IN IF schedule.t /= "obj" THEN AttributeError(schedule, "get")
                          ELSE Ok(Lines(
                                 << <<"Name: ">> \o GetStr(c, "name"),
                                    <<"  Schedule Type: ">>
                                       \o GetStr(schedule, "scheduleType") >>
                                 \o (IF HasKey(schedule, "dayOfWeek")
                                     THEN << <<"  Day of Week: ">>
                                             \o GetStr(schedule, "dayOfWeek") >>
                                     ELSE <<>>)
                                 \o (IF HasKey(schedule, "dayOfMonth")
                                     THEN << <<"  Day of Month: ">>
                                             \o GetStr(schedule, "dayOfMonth") >>
                                     ELSE <<>>)
                                 \o << <<"  Start Hour (UTC): ">>
                                         \o GetStrOr(schedule, "startHour", "Not set"),
                                       <<"  Duration (hours): ">>
                                         \o GetStrOr(schedule, "durationHours", "Not set"),
                                       <<"---">> >>))

\* the body of list_aks_maintenance_configs after json.loads
format_maintenance_configs(configs, cluster_name) ==
  IF ~Truthy(configs)
  THEN Ok(<<"No maintenance configurations found for AKS cluster '",
            cluster_name, "'.">>)
  ELSE LET it == Iterate(configs)
       IN IF ~it.ok THEN it.err
          ELSE Collect(<< <<"Maintenance configurations for cluster '",
                            cluster_name, "':">> >>,
                       [i \in 1..Len(it.items) |-> config_block(it.items[i])])

\* the line get_aks_upgrade_profile appends for one upgrade
upgrade_line(u) ==
  IF u.t /= "obj" THEN AttributeError(u, "get")
  ELSE Ok(<<"- ">> \o GetStrOr(u, "kubernetesVersion", "Unknown")
          \o (IF Truthy(GetOr(u, "isPreview", JBool(FALSE)))
              THEN <<" (PREVIEW)">> ELSE <<>>))

\* the body of get_aks_upgrade_profile after json.loads
format_upgrade_profile(data, cluster_name) ==
  IF data.t /= "obj" THEN AttributeError(data, "get")
  ELSE LET profile == GetOr(data, "controlPlaneProfile", JObj(<<>>, <<>>))
       IN IF profile.t /= "obj" THEN AttributeError(profile, "get")
          ELSE LET upgrades == GetOr(profile, "upgrades", JArr(<<>>))
                   head == << <<"AKS cluster '", cluster_name, "' upgrade profile:">>,
                              <<"Current Kubernetes version: ">>
                                \o GetStrOr(profile, "kubernetesVersion", "Unknown") >>
               IN IF ~Truthy(upgrades)
                  THEN Ok(Lines(head \o << <<"No upgrades available.">> >>))
                  ELSE LET it == Iterate(upgrades)
                       IN IF ~it.ok THEN it.err
                          ELSE Collect(head \o << <<"Available upgrade versions:">> >>,
                                 [i \in 1..Len(it.items) |-> upgrade_line(it.items[i])])

\* the try/except skeleton of the handlers that parse stdout: run cmd, parse,
\* format; parseMsg is <<>> for a handler without "except json.JSONDecodeError"
\* and the handler's fixed message otherwise; f is the formatter's result on
\* the parsed value
AzJson(cmd, outs, prefix, parseMsg, parsed, f) ==
  IF outs = <<>> THEN Await(Run(cmd))
  ELSE LET o == outs[1]
       IN IF o.kind = "exit" /\ o.rc = 0
          THEN IF ~parsed.ok
               THEN (IF parseMsg = <<>> THEN Unexpected(JSONDecodeErrorText)
                     ELSE Return(parseMsg))
               ELSE IF f.ok THEN Return(f.text) ELSE Unexpected(f.msg)
          ELSE IF CalledProcessError(o) THEN Return(<<prefix>> \o o.stderr)
          ELSE Unexpected(SpawnErrorText(o, cmd))

\* json.loads(result.stdout) of the first command's outcome
Parsed(outs) == IF outs = <<>> THEN ParseFail ELSE json_loads(outs[1].stdout)

get_aks_clusters_cmd(a) ==
  <<"az", "aks", "list">>
  \o (IF a.state /= "" /\ StripNonEmpty(a.state)
      THEN <<"--resource-group", a.state>> ELSE <<>>)

get_aks_clusters(a, outs) ==
  AzJson(get_aks_clusters_cmd(a), outs, "Error executing Azure CLI command: ",
         <<"Error parsing Azure CLI output">>,
         Parsed(outs), format_aks_clusters(Parsed(outs).v))

show_aks_cluster(a, outs) ==
  AzJson(<<"az", "aks", "show", "--name", a.cluster_name,
           "--resource-group", a.resource_group_name>>, outs,
         "Error executing Azure CLI command: ",
         <<"Error parsing Azure CLI output">>,
         Parsed(outs), format_aks_cluster(Parsed(outs).v))

\* get_aks_versions_cmd passing --location without looking at the parameter
get_aks_versions_cmd_always(a) ==
  <<"az", "aks", "get-versions", "--location",
    IF Given(a.location) THEN a.location[1] ELSE "None">>

get_aks_versions_cmd(a) ==
  <<"az", "aks", "get-versions">>
  \o (IF TruthyStr(a.location) THEN <<"--location", a.location[1]>> ELSE <<>>)

get_aks_versions(a, outs) ==
  AzJson(get_aks_versions_cmd(a), outs, "Error getting AKS versions: ", <<>>,
         Parsed(outs), format_aks_versions(Parsed(outs).v))

get_aks_nodepool_list(a, outs) ==
  AzJson(<<"az", "aks", "nodepool", "list", "--resource-group",
           a.resource_group_name, "--cluster-name", a.cluster_name>>, outs,
         "Error listing node pools: ", <<>>,
         Parsed(outs), format_nodepool_list(Parsed(outs).v, a.cluster_name))

aks_nodepool_show(a, outs) ==
  AzJson(<<"az", "aks", "nodepool", "show", "--resource-group",
           a.resource_group_name, "--cluster-name", a.cluster_name,
           "--name", a.nodepool_name>>, outs,
         "Error getting node pool details: ",
         <<"Error parsing node pool information">>,
         Parsed(outs), format_nodepool(Parsed(outs).v, a.nodepool_name))

list_aks_maintenance_configs(a, outs) ==
  AzJson(<<"az", "aks", "maintenanceconfiguration", "list", "--resource-group",
           a.resource_group_name, "--cluster-name", a.cluster_name>>, outs,
         "Error listing maintenance configurations: ",
         <<"Error parsing maintenance configurations">>,
         Parsed(outs), format_maintenance_configs(Parsed(outs).v, a.cluster_name))

get_aks_upgrade_profile(a, outs) ==
  AzJson(<<"az", "aks", "get-upgrades", "--resource-group", a.resource_group_name,
           "--name", a.cluster_name>>, outs,
         "Error getting upgrade profile: ",
         <<"Error parsing upgrade information">>,
         Parsed(outs), format_upgrade_profile(Parsed(outs).v, a.cluster_name))

(***************************************************************************)
(* tools/k8s.py                                                            *)
(***************************************************************************)
K8sgptNotInstalled ==
  <<"Error: k8sgpt is not installed. Please install it first with 'brew install k8sgpt' or follow the installation guide at https://github.com/k8sgpt-ai/k8sgpt">>

K8sgptNeedsAuth ==
  <<"Error: k8sgpt requires authentication setup. Please run 'k8sgpt auth add' to configure your AI provider.">>

\* the text "k8sgpt: command not found" the handlers look for
CommandNotFound == <<"k8sgpt: command not found">>

\* output_format as bound by the signature (default "text")
OutputFormat(a) == Default(a.output_format, "text")

\* the value after --output passed as the caller spelled it
analyze_output_value_as_given(fmt) == fmt

\* the value analyze_k8s_cluster passes after --output
analyze_output_value(fmt) == Lower(fmt)

\* the command analyze_k8s_cluster builds
analyze_k8s_cluster_cmd(a) ==
  <<"k8sgpt", "analyze">>
  \o (IF Default(a.explain, TRUE) THEN <<"--explain">> ELSE <<>>)
  \o (IF TruthyStr(a.filter) THEN <<"--filter", a.filter[1]>> ELSE <<>>)
  \o (IF TruthyStr(a.namespace) THEN <<"--namespace", a.namespace[1]>> ELSE <<>>)
  \o (IF Default(a.with_doc, FALSE) THEN <<"--with-doc">> ELSE <<>>)
  \o (IF OutputFormat(a) /= "" /\ Lower(OutputFormat(a)) \in {"text", "json", "yaml"}
      THEN <<"--output", analyze_output_value(OutputFormat(a))>> ELSE <<>>)
  \o (IF Default(a.anonymize, FALSE) THEN <<"--anonymize">> ELSE <<>>)
  \o (IF TruthyStr(a.backend) THEN <<"--backend", a.backend[1]>> ELSE <<>>)

\* analyze_success comparing output_format without lower()
analyze_success_exact(a, stdout) ==
  IF OutputFormat(a) = "json"
  THEN LET p == json_loads(stdout)
       IN IF p.ok THEN json_dumps(p.v) ELSE stdout
  ELSE IF stdout /= <<>> THEN stdout ELSE <<"No issues found in the cluster.">>

\* what analyze_k8s_cluster returns for a command that exited zero
analyze_success(a, stdout) ==
  IF OutputFormat(a) /= "" /\ Lower(OutputFormat(a)) = "json"
  THEN LET p == json_loads(stdout)
       IN IF p.ok THEN json_dumps(p.v) ELSE stdout
  ELSE IF stdout /= <<>> THEN stdout ELSE <<"No issues found in the cluster.">>

\* the classification with the two tests in the other order
analyze_failure_auth_first(o) ==
  LET error_msg == IF o.stderr /= <<>> THEN o.stderr ELSE o.stdout
  IN IF Contains(<<"auth", "entication required">>, error_msg)
        \/ Contains(<<"auth">>, error_msg)
     THEN K8sgptNeedsAuth
     ELSE IF Contains(CommandNotFound, error_msg) THEN K8sgptNotInstalled
     ELSE <<"Error executing k8sgpt: ">> \o error_msg

\* what analyze_k8s_cluster returns for a CalledProcessError
analyze_failure(o) ==
  LET error_msg == IF o.stderr /= <<>> THEN o.stderr ELSE o.stdout
  IN IF Contains(CommandNotFound, error_msg) THEN K8sgptNotInstalled
     ELSE IF Contains(<<"auth", "entication required">>, error_msg)
             \/ Contains(<<"auth">>, error_msg)
     THEN K8sgptNeedsAuth
     ELSE <<"Error executing k8sgpt: ">> \o error_msg

analyze_k8s_cluster(a, outs) ==
  IF outs = <<>> THEN Await(Run(analyze_k8s_cluster_cmd(a)))
  ELSE LET o == outs[1]
       IN IF o.kind = "exit" /\ o.rc = 0 THEN Return(analyze_success(a, o.stdout))
          ELSE IF CalledProcessError(o) THEN Return(analyze_failure(o))
          ELSE Unexpected(SpawnErrorText(o, analyze_k8s_cluster_cmd(a)))

\* how an f-string renders the bytes object b that holds the text t
BytesRepr(t) == <<"b'">> \o t \o <<"'">>

\* f"{e.stderr if e.stderr else e.stdout}" of a CalledProcessError whose
\* command ran with text=True (str output) or without it (bytes output)
StderrOrStdout(o, text) ==
  LET pick == IF o.stderr /= <<>> THEN o.stderr ELSE o.stdout
  IN IF text THEN pick ELSE BytesRepr(pick)

\* provider as bound by the signature (default "azureopenai")
Provider(a) == Default(a.provider, "azureopenai")

k8sgpt_auth_add_cmd(a) ==
  <<"k8sgpt", "auth", "add", "-p", Provider(a), "--password", a.api_key[1]>>

k8sgpt_auth_instructions(a) ==
  <<"To configure ", Provider(a), " authentication for k8sgpt, please run the ",
    "following command in your terminal:\n\n",
    "k8sgpt auth add -p ", Provider(a), "\n\n",
    "You will be prompted to enter your API key.">>

\* k8sgpt_configure_auth running "k8sgpt auth add" without a password, which
\* prompts for one, when no api_key was supplied
k8sgpt_configure_auth_prompting(a, outs) ==
  IF outs = <<>> THEN Await(RunBytes(<<"k8sgpt", "--version">>))
  ELSE IF Len(outs) = 1
  THEN LET o == outs[1]
       IN IF o.kind = "notfound" THEN Return(K8sgptNotInstalled)
          ELSE IF o.kind = "denied" THEN Unexpected(PermissionText("k8sgpt"))
          ELSE IF CalledProcessError(o)
          THEN Return(<<"Error configuring k8sgpt authentication: ">>
                      \o StderrOrStdout(o, FALSE))
          ELSE IF TruthyStr(a.api_key) THEN Await(Run(k8sgpt_auth_add_cmd(a)))
          ELSE Await(Run(<<"k8sgpt", "auth", "add", "-p", Provider(a)>>))
  ELSE LET o == outs[2]
       IN IF o.kind = "exit" /\ o.rc = 0
          THEN Return(<<"Successfully configured ", Provider(a),
                        " authentication for k8sgpt.">>)
          ELSE IF CalledProcessError(o)
          THEN Return(<<"Error configuring k8sgpt authentication: ">>
                      \o StderrOrStdout(o, TRUE))
          ELSE Unexpected(SpawnErrorText(o, <<"k8sgpt">>))

k8sgpt_configure_auth(a, outs) ==
  IF outs = <<>> THEN Await(RunBytes(<<"k8sgpt", "--version">>))
  ELSE IF Len(outs) = 1
  THEN LET o == outs[1]
       IN IF o.kind = "notfound" THEN Return(K8sgptNotInstalled)
          ELSE IF o.kind = "denied" THEN Unexpected(PermissionText("k8sgpt"))
          ELSE IF CalledProcessError(o)
          THEN Return(<<"Error configuring k8sgpt authentication: ">>
                      \o StderrOrStdout(o, FALSE))
          ELSE IF TruthyStr(a.api_key) THEN Await(Run(k8sgpt_auth_add_cmd(a)))
          ELSE Return(k8sgpt_auth_instructions(a))
  ELSE LET o == outs[2]
       IN IF o.kind = "exit" /\ o.rc = 0
          THEN Return(<<"Successfully configured ", Provider(a),
                        " authentication for k8sgpt.">>)
          ELSE IF CalledProcessError(o)
          THEN Return(<<"Error configuring k8sgpt authentication: ">>
                      \o StderrOrStdout(o, TRUE))
          ELSE Unexpected(SpawnErrorText(o, k8sgpt_auth_add_cmd(a)))

k8sgpt_list_filters(a, outs) ==
  IF outs = <<>> THEN Await(Run(<<"k8sgpt", "filters">>))
  ELSE LET o == outs[1]
       IN IF o.kind = "exit" /\ o.rc = 0 THEN Return(o.stdout)
          ELSE IF CalledProcessError(o)
          THEN (IF Contains(CommandNotFound, o.stderr) THEN Return(K8sgptNotInstalled)
                ELSE Return(<<"Error listing k8sgpt filters: ">>
                            \o StderrOrStdout(o, TRUE)))
          ELSE Unexpected(SpawnErrorText(o, <<"k8sgpt", "filters">>))

(***************************************************************************)
(* tools/weather.py                                                        *)
(***************************************************************************)
NWS_API_BASE == "https://api.weather.gov"

\* the number of periods get_forecast renders at most ("periods[:5]")
ForecastPeriods == 5

\* make_nws_request without raise_for_status: the body of every reply is
\* parsed, whatever its status
make_nws_request_any_status(o) ==
  IF o.kind = "reply" /\ json_loads(o.stdout).ok
  THEN <<json_loads(o.stdout).v>>
  ELSE <<>>

\* make_nws_request(url) given the outcome o of its GET: <<v>> for the parsed
\* body of a 2xx reply, <<>> (None) for everything else
make_nws_request(o) ==
  IF o.kind = "reply" /\ o.status \in 200..299 /\ json_loads(o.stdout).ok
  THEN <<json_loads(o.stdout).v>>
  ELSE <<>>

\* "not data" for what make_nws_request returned
NotData(d) == d = <<>> \/ ~Truthy(d[1])

SubOk(v) == [ok |-> TRUE, v |-> v, err |-> Ok(<<>>)]
SubErr(e) == [ok |-> FALSE, v |-> JNull, err |-> e]

\* v[k] for a str key k
Subscript(v, k) ==
  IF v.t = "obj"
  THEN (IF HasKey(v, k) THEN SubOk(Lookup(v, k)) ELSE SubErr(KeyError(k)))
  ELSE SubErr(NotSubscriptable(v))

\* v[k1][k2]
Subscript2(v, k1, k2) ==
  LET r == Subscript(v, k1) IN IF r.ok THEN Subscript(r.v, k2) ELSE r

\* "k in v" for a str k: ok is FALSE where Python raises TypeError
InValue(k, v) ==
  CASE v.t = "obj" -> [ok |-> TRUE, b |-> HasKey(v, k), err |-> Ok(<<>>)]
    [] v.t = "arr" ->
         [ok |-> TRUE, b |-> \E i \in 1..Len(v.items) : v.items[i] = JStr(k),
          err |-> Ok(<<>>)]
    [] v.t = "str" -> [ok |-> TRUE, b |-> v.s = k, err |-> Ok(<<>>)]
    [] OTHER ->
         [ok |-> FALSE, b |-> FALSE,
          err |-> Exc("TypeError",
                      <<"argument of type '", TypeName(v), "' is not iterable">>)]

\* format_alert(feature)
format_alert(feature) ==
  LET p == Subscript(feature, "properties")
  IN IF ~p.ok THEN p.err
     ELSE IF p.v.t /= "obj" THEN AttributeError(p.v, "get")
     ELSE Ok(<<"\nEvent: ">> \o GetStrOr(p.v, "event", "Unknown")
             \o <<"\nArea: ">> \o GetStrOr(p.v, "areaDesc", "Unknown")
             \o <<"\nSeverity: ">> \o GetStrOr(p.v, "severity", "Unknown")
             \o <<"\nDescription: ">>
             \o GetStrOr(p.v, "description", "No description available")
             \o <<"\nInstructions: ">>
             \o GetStrOr(p.v, "instruction", "No specific instructions provided")
             \o <<"\n">>)

\* the separator get_alerts and get_forecast join their blocks with
BlockSeparator == <<"\n---\n">>

\* the first exception among the per-element results rs, otherwise their
\* texts joined by the separator
JoinBlocks(rs) ==
  IF \E i \in 1..Len(rs) : ~rs[i].ok
  THEN rs[CHOOSE i \in 1..Len(rs) : ~rs[i].ok /\ \A j \in 1..(i - 1) : rs[j].ok]
  ELSE Ok(Join(BlockSeparator, [i \in 1..Len(rs) |-> rs[i].text]))

\* the URL get_alerts requests
alerts_url(a) == JStr(NWS_API_BASE \o "/alerts/active/area/" \o a.state)

\* get_alerts taking an absent response for an empty list of alerts
alerts_result_no_alerts(data) ==
  IF NotData(data) THEN Ok(<<"No active alerts for this state.">>)
  ELSE LET has == InValue("features", data[1])
       IN IF ~has.ok THEN has.err
          ELSE IF ~has.b THEN Ok(<<"Unable to fetch alerts or no alerts found.">>)
          ELSE LET f == Subscript(data[1], "features")
               IN IF ~f.ok THEN f.err
                  ELSE IF ~Truthy(f.v) THEN Ok(<<"No active alerts for this state.">>)
                  ELSE LET it == Iterate(f.v)
                       IN IF ~it.ok THEN it.err
                          ELSE JoinBlocks([i \in 1..Len(it.items) |->
                                             format_alert(it.items[i])])

\* the body of get_alerts after make_nws_request returned data
alerts_result(data) ==
  IF NotData(data) THEN Ok(<<"Unable to fetch alerts or no alerts found.">>)
  ELSE LET has == InValue("features", data[1])
       IN IF ~has.ok THEN has.err
          ELSE IF ~has.b THEN Ok(<<"Unable to fetch alerts or no alerts found.">>)
          ELSE LET f == Subscript(data[1], "features")
               IN IF ~f.ok THEN f.err
                  ELSE IF ~Truthy(f.v) THEN Ok(<<"No active alerts for this state.">>)
                  ELSE LET it == Iterate(f.v)
                       IN IF ~it.ok THEN it.err
                          ELSE JoinBlocks([i \in 1..Len(it.items) |->
                                             format_alert(it.items[i])])

\* the handler has no try block: an exception of its body escapes
ReturnOrRaise(r) == IF r.ok THEN Return(r.text) ELSE Raise(r.exc)

get_alerts(a, outs) ==
  IF outs = <<>> THEN Await(HttpGet(alerts_url(a)))
  ELSE ReturnOrRaise(alerts_result(make_nws_request(outs[1])))

\* str(x) of the float whose integer part is f[1] and whose first decimal
\* is f[2]
FloatStr(f) == ToString(f[1]) \o "." \o ToString(f[2])

\* the URL of get_forecast's first request
points_url(a) ==
  JStr(NWS_API_BASE \o "/points/" \o FloatStr(a.latitude) \o ","
       \o FloatStr(a.longitude))

\* the first n elements of a sequence ("s[:n]")
FirstN(s, n) == SubSeq(s, 1, IF Len(s) < n THEN Len(s) ELSE n)

\* slice_periods without the slice: every period is visited
slice_periods_all(periods) ==
  CASE periods.t = "arr" -> [ok |-> TRUE, items |-> periods.items, err |-> Ok(<<>>)]
    [] periods.t = "str" ->
         [ok |-> TRUE, items |-> IF periods.s = "" THEN <<>> ELSE <<periods>>,
          err |-> Ok(<<>>)]
    [] periods.t = "obj" ->
         [ok |-> FALSE, items |-> <<>>,
          err |-> Exc("TypeError", <<"unhashable type: 'slice'">>)]
    [] OTHER -> [ok |-> FALSE, items |-> <<>>, err |-> NotSubscriptable(periods)]

\* "periods[:5]" followed by iteration: the periods the loop visits, or the
\* exception the slice raises (a dict cannot be sliced: TypeError before
\* Python 3.12, KeyError from 3.12 on)
slice_periods(periods) ==
  CASE periods.t = "arr" ->
         [ok |-> TRUE, items |-> FirstN(periods.items, ForecastPeriods),
          err |-> Ok(<<>>)]
    [] periods.t = "str" ->
         [ok |-> TRUE, items |-> IF periods.s = "" THEN <<>> ELSE <<periods>>,
          err |-> Ok(<<>>)]
    [] periods.t = "obj" ->
         [ok |-> FALSE, items |-> <<>>,
          err |-> Exc("TypeError", <<"unhashable type: 'slice'">>)]
    [] OTHER -> [ok |-> FALSE, items |-> <<>>, err |-> NotSubscriptable(periods)]

\* the keys the forecast block reads from a period, in the order it reads them
PeriodKeys ==
  <<"name", "temperature", "temperatureUnit", "windSpeed", "windDirection",
    "detailedForecast">>

\* the f-string block get_forecast builds for one period
forecast_block(period) ==
  IF period.t /= "obj" THEN NotSubscriptable(period)
  ELSE IF \E i \in 1..Len(PeriodKeys) : ~HasKey(period, PeriodKeys[i])
  THEN KeyError(PeriodKeys[CHOOSE i \in 1..Len(PeriodKeys) :
                    /\ ~HasKey(period, PeriodKeys[i])
                    /\ \A j \in 1..(i - 1) : HasKey(period, PeriodKeys[j])])
  ELSE Ok(<<"\n    ">> \o PyStr(Lookup(period, "name")) \o <<":">>
          \o <<"\n    Temperature: ">> \o PyStr(Lookup(period, "temperature"))
          \o <<"°">> \o PyStr(Lookup(period, "temperatureUnit"))
          \o <<"\n    Wind: ">> \o PyStr(Lookup(period, "windSpeed"))
          \o <<" ">> \o PyStr(Lookup(period, "windDirection"))
          \o <<"\n    Forecast: ">> \o PyStr(Lookup(period, "detailedForecast"))
          \o <<"\n    ">>)

\* the body of get_forecast after the forecast request returned data
forecast_result(data) ==
  IF NotData(data) THEN Ok(<<"Unable to fetch detailed forecast.">>)
  ELSE LET p == Subscript2(data[1], "properties", "periods")
       IN IF ~p.ok THEN p.err
          ELSE LET sl == slice_periods(p.v)
               IN IF ~sl.ok THEN sl.err
                  ELSE JoinBlocks([i \in 1..Len(sl.items) |->
                                     forecast_block(sl.items[i])])

\* get_forecast building the forecast URL itself instead of reading it from the
\* points response
get_forecast_own_url(a, outs) ==
  IF outs = <<>> THEN Await(HttpGet(points_url(a)))
  ELSE IF Len(outs) = 1
  THEN LET points_data == make_nws_request(outs[1])
       IN IF NotData(points_data)
          THEN Return(<<"Unable to fetch forecast data for this location.">>)
          ELSE Await(HttpGet(JStr(NWS_API_BASE \o "/points/"
                                  \o FloatStr(a.latitude) \o ","
                                  \o FloatStr(a.longitude) \o "/forecast")))
  ELSE ReturnOrRaise(forecast_result(make_nws_request(outs[2])))

get_forecast(a, outs) ==
  IF outs = <<>> THEN Await(HttpGet(points_url(a)))
  ELSE IF Len(outs) = 1
  THEN LET points_data == make_nws_request(outs[1])
       IN IF NotData(points_data)
          THEN Return(<<"Unable to fetch forecast data for this location.">>)
          ELSE LET u == Subscript2(points_data[1], "properties", "forecast")
               IN IF u.ok THEN Await(HttpGet(u.v)) ELSE Raise(u.err.exc)
  ELSE ReturnOrRaise(forecast_result(make_nws_request(outs[2])))

(***************************************************************************)
(* The inputs of the model: what the external programs and the weather     *)
(* service can answer, and the parameters a caller can supply.             *)
(***************************************************************************)
\* the dict with the given <<key, value>> pairs
Obj(pairs) ==
  JObj([i \in 1..Len(pairs) |-> pairs[i][1]], [i \in 1..Len(pairs) |-> pairs[i][2]])

RECURSIVE Tok(_), TokItems(_, _), TokMembers(_, _)
\* a JSON text of the value v, without whitespace
Tok(v) ==
  CASE v.t \in {"null", "bool", "num"} -> <<IF v.t = "null" THEN "null" ELSE v.s>>
    [] v.t = "str" -> <<"\"">> \o (IF v.s = "" THEN <<>> ELSE <<v.s>>) \o <<"\"">>
    [] v.t = "arr" -> <<"[">> \o TokItems(v.items, 1) \o <<"]">>
    [] OTHER -> <<"{">> \o TokMembers(v, 1) \o <<"}">>

TokItems(items, i) ==
  IF i > Len(items) THEN <<>>
  ELSE Tok(items[i]) \o (IF i < Len(items) THEN <<",">> ELSE <<>>)
       \o TokItems(items, i + 1)

TokMembers(o, i) ==
  IF i > Len(o.items) THEN <<>>
  ELSE <<"\"", o.keys[i], "\"", ":">> \o Tok(o.items[i])
       \o (IF i < Len(o.items) THEN <<",">> ELSE <<>>)
       \o TokMembers(o, i + 1)

\* texts that are not JSON: nothing, prose, a truncated document
NotJson == {<<>>, <<"WARNING: not json">>, <<"[", "1", ",">>}

\* exit codes of a command
ExitCodes == {0, 1}

\* what a command writes to stderr
AzStderrs == {<<>>, <<"ERROR: ", "resource group not found">>}
K8sStderrs ==
  {<<>>, <<"Error: ", "cluster unreachable">>,
   <<"sh: ", "k8sgpt: command not found">>,
   <<"Error: ", "auth", "entication required">>,
   <<"Error: un", "auth", "orized">>,
   <<"sh: ", "k8sgpt: command not found", " (", "auth", " helper)">>}

\* what a command whose output is not parsed writes to stdout
PlainStdouts == {<<>>, <<"done", "\n">>}

ClusterA ==
  Obj(<< <<"name", JStr("c1")>>, <<"resourceGroup", JStr("rg")>>,
         <<"location", JStr("westus")>>, <<"kubernetesVersion", JStr("1.29")>>,
         <<"provisioningState", JStr("Succeeded")>> >>)
ClusterB == Obj(<< <<"name", JStr("c2")>>, <<"location", JNull>> >>)

ClusterListStdouts ==
  NotJson \cup {<<"[", " ", "]", "\n">>}
  \cup {Tok(v) : v \in {JArr(<<>>), JArr(<<ClusterA>>), JArr(<<ClusterB, ClusterA>>),
                        JObj(<<>>, <<>>), JNum("5"), JArr(<<JNum("5")>>),
                        Obj(<< <<"error", JStr("x")>> >>)}}

ClusterShowStdouts ==
  NotJson
  \cup {Tok(v) : v \in {JObj(<<>>, <<>>), JNull, ClusterB, JArr(<<JNum("1")>>),
                        Obj(<< <<"name", JStr("c1")>>, <<"nodes", JNum("3")>>,
                               <<"rbac", JBool(TRUE)>>,
                               <<"tags", Obj(<< <<"env", JStr("dev")>> >>)>>,
                               <<"zones", JArr(<<JNum("1"), JStr("a")>>)>> >>)}}

Orchestrator(v, isDefault, isPreview) ==
  Obj(<< <<"orchestratorVersion", JStr(v)>> >>
      \o (IF isDefault = <<>> THEN <<>> ELSE << <<"default", JBool(isDefault[1])>> >>)
      \o (IF isPreview = <<>> THEN <<>> ELSE << <<"isPreview", JBool(isPreview[1])>> >>))

VersionsStdouts ==
  NotJson
  \cup {Tok(v) : v \in {JObj(<<>>, <<>>), JArr(<<>>),
                        Obj(<< <<"orchestrators", JArr(<<>>)>> >>),
                        Obj(<< <<"orchestrators", JNull>> >>),
                        Obj(<< <<"orchestrators", JArr(<<JStr("1.29")>>)>> >>),
                        Obj(<< <<"orchestrators",
                                 JArr(<<Orchestrator("1.30", <<TRUE>>, <<TRUE>>),
                                        Orchestrator("1.29", <<TRUE>>, <<FALSE>>),
                                        Orchestrator("1.28", <<>>, <<TRUE>>),
                                        Orchestrator("1.27", <<>>, <<>>)>>)>> >>)}}

PoolA ==
  Obj(<< <<"name", JStr("np1")>>, <<"mode", JStr("User")>>,
         <<"vmSize", JStr("Standard_DS2_v2")>>, <<"count", JNum("3")>>,
         <<"osType", JStr("Linux")>>, <<"orchestratorVersion", JStr("1.29")>>,
         <<"provisioningState", JStr("Succeeded")>>, <<"maxPods", JNum("30")>> >>)

PoolWith(labels, taints) ==
  Obj(<< <<"mode", JStr("System")>>, <<"count", JNum("1")>>,
         <<"nodeLabels", labels>>, <<"nodeTaints", taints>> >>)

NodepoolListStdouts ==
  NotJson
  \cup {Tok(v) : v \in {JArr(<<>>), JArr(<<PoolA>>), JObj(<<>>, <<>>), JNull,
                        JArr(<<PoolA, JNum("1")>>), JBool(TRUE)}}

NodepoolShowStdouts ==
  NotJson
  \cup {Tok(v) : v \in {JObj(<<>>, <<>>), PoolA, JArr(<<>>),
                        PoolWith(Obj(<< <<"env", JStr("dev")>>, <<"n", JNum("1")>> >>),
                                 JArr(<<JStr("k=v:NoSchedule")>>)),
                        PoolWith(JObj(<<>>, <<>>), JArr(<<>>)),
                        PoolWith(JNull, JNull),
                        PoolWith(JArr(<<JStr("x")>>), JNum("5")),
                        PoolWith(JNull, JNum("5"))}}

Schedule(pairs) ==
  Obj(<< <<"name", JStr("m1")>>,
         <<"properties",
           Obj(<< <<"maintenanceWindow",
                    Obj(<< <<"schedule", Obj(pairs)>> >>)>> >>)>> >>)

MaintenanceStdouts ==
  NotJson
  \cup {Tok(v) : v \in {JArr(<<>>), JObj(<<>>, <<>>),
                        JArr(<<Obj(<< <<"name", JStr("m0")>> >>)>>),
                        JArr(<<Obj(<< <<"properties", JNull>> >>)>>),
                        JArr(<<Schedule(<< <<"scheduleType", JStr("Weekly")>>,
                                           <<"dayOfWeek", JStr("Monday")>>,
                                           <<"startHour", JNum("2")>>,
                                           <<"durationHours", JNum("4")>> >>)>>),
                        JArr(<<Schedule(<< <<"scheduleType", JStr("AbsoluteMonthly")>>,
                                           <<"dayOfMonth", JNum("15")>>,
                                           <<"dayOfWeek", JNull>> >>),
                               Schedule(<< <<"dayOfWeek", JStr("")>> >>)>>)}}

Upgrade(pairs) ==
  Obj(<< <<"controlPlaneProfile", Obj(pairs)>> >>)

UpgradeStdouts ==
  NotJson
  \cup {Tok(v) : v \in {JObj(<<>>, <<>>), JArr(<<>>),
                        Upgrade(<< <<"kubernetesVersion", JStr("1.28")>>,
                                   <<"upgrades", JArr(<<>>)>> >>),
                        Upgrade(<< <<"kubernetesVersion", JStr("1.28")>>,
                                   <<"upgrades", JNull>> >>),
                        Upgrade(<< <<"upgrades",
                                     JArr(<<Obj(<< <<"kubernetesVersion", JStr("1.29")>>,
                                                   <<"isPreview", JBool(TRUE)>> >>),
                                            Obj(<< <<"isPreview", JNull>> >>)>>)>> >>),
                        Upgrade(<< <<"upgrades", JNum("5")>> >>),
                        Obj(<< <<"controlPlaneProfile", JStr("x")>> >>)}}

\* what k8sgpt analyze writes to stdout
AnalyzeStdouts ==
  {<<>>, <<"0: Pod default/web", "\n", "- Error: CrashLoopBackOff">>,
   <<"{", "\"", "status", "\"", ":", "\"", "OK", "\"", ",",
     "\"", "problems", "\"", ":", "0", "}", "\n">>,
   <<"{", "\"", "results", "\"", ":", " ", "[", "{", "\"", "kind", "\"", ":",
     "\"", "Pod", "\"", "}", ",", "null", "]", "}">>,
   <<"[", "]">>,
   <<"{", "\"", "status", "\"", ":">>}

\* the stdout texts the command of a tool can produce
StdoutsFor(t) ==
  CASE t = "get_aks_clusters" -> ClusterListStdouts
    [] t = "show_aks_cluster" -> ClusterShowStdouts
    [] t = "get_aks_versions" -> VersionsStdouts
    [] t = "get_aks_nodepool_list" -> NodepoolListStdouts
    [] t = "aks_nodepool_show" -> NodepoolShowStdouts
    [] t = "list_aks_maintenance_configs" -> MaintenanceStdouts
    [] t = "get_aks_upgrade_profile" -> UpgradeStdouts
    [] t = "analyze_k8s_cluster" -> AnalyzeStdouts
    [] OTHER -> PlainStdouts

K8sTools == {"analyze_k8s_cluster", "k8sgpt_configure_auth", "k8sgpt_list_filters"}

\* the stderr texts the command of a tool can produce
StderrsFor(t) == IF t \in K8sTools THEN K8sStderrs ELSE AzStderrs

AlertA ==
  Obj(<< <<"properties",
           Obj(<< <<"event", JStr("Flood Warning")>>, <<"areaDesc", JStr("King")>>,
                  <<"severity", JStr("Severe")>>, <<"description", JStr("Rain")>>,
                  <<"instruction", JStr("Move to higher ground")>> >>)>> >>)
AlertB == Obj(<< <<"properties", Obj(<< <<"event", JStr("Wind Advisory")>> >>)>> >>)

\* what the weather service answers to the alerts request
AlertBodies ==
  {<<"<html>", "Service Unavailable", "</html>">>}
  \cup {Tok(v) : v \in {JObj(<<>>, <<>>), JNum("5"), JArr(<<JStr("features")>>),
                        Obj(<< <<"title", JStr("Not Found")>> >>),
                        Obj(<< <<"features", JArr(<<>>)>> >>),
                        Obj(<< <<"features", JArr(<<AlertA>>)>> >>),
                        Obj(<< <<"features", JArr(<<AlertB, AlertA>>)>> >>),
                        Obj(<< <<"features", JArr(<<Obj(<< <<"id", JNum("1")>> >>)>>)>> >>),
                        Obj(<< <<"features", JArr(<<Obj(<< <<"properties", JNull>> >>)>>)>> >>),
                        Obj(<< <<"features", JNum("5")>> >>)}}

\* the forecast URL a points response names
ForecastUrl == "https://api.weather.gov/gridpoints/SEW/124,67/forecast"

\* what the weather service answers to the points request
PointsBodies ==
  {<<"<html>", "Service Unavailable", "</html>">>}
  \cup {Tok(v) : v \in {JObj(<<>>, <<>>), JArr(<<JNum("1")>>),
                        Obj(<< <<"title", JStr("Not Found")>> >>),
                        Obj(<< <<"properties", JObj(<<>>, <<>>)>> >>),
                        Obj(<< <<"properties", JStr("x")>> >>),
                        Obj(<< <<"properties", Obj(<< <<"forecast", JNull>> >>)>> >>),
                        Obj(<< <<"properties",
                                 Obj(<< <<"forecast", JStr(ForecastUrl)>> >>)>> >>)}}

\* the i-th period of a forecast payload
Period(i) ==
  Obj(<< <<"name", JStr("Period " \o ToString(i))>>,
         <<"temperature", JNum(ToString(60 + i))>>,
         <<"temperatureUnit", JStr("F")>>,
         <<"windSpeed", JStr("5 mph")>>,
         <<"windDirection", JStr("NW")>>,
         <<"detailedForecast", JStr("Forecast " \o ToString(i))>> >>)

\* a forecast payload with the periods 1..n
ForecastPayload(n) ==
  Obj(<< <<"properties", Obj(<< <<"periods", JArr([i \in 1..n |-> Period(i)])>> >>)>> >>)

\* what the weather service answers to the forecast request
ForecastBodies ==
  {<<"<html>", "Service Unavailable", "</html>">>}
  \cup {Tok(ForecastPayload(n)) : n \in 0..MaxPeriods}
  \cup {Tok(v) : v \in {JObj(<<>>, <<>>),
                        Obj(<< <<"properties", JObj(<<>>, <<>>)>> >>),
                        Obj(<< <<"properties", Obj(<< <<"periods", JNull>> >>)>> >>),
                        Obj(<< <<"properties", Obj(<< <<"periods",
                               JArr(<<Period(1), Obj(<< <<"name", JStr("Tonight")>> >>)>>)>> >>)>> >>),
                        Obj(<< <<"properties", Obj(<< <<"periods",
                               JArr(<<JStr("Tonight")>>)>> >>)>> >>)}}

\* HTTP status codes of a reply
HttpStatuses == {200, 404}

\* the ways a GET fails without a reply
HttpFailures == {"timeout", "connect"}

\* the bodies the service can send for the n-th request of a tool
BodiesFor(t, n) ==
  IF t = "get_alerts" THEN AlertBodies
  ELSE IF n = 1 THEN PointsBodies ELSE ForecastBodies

(***************************************************************************)
(* The parameters a caller can supply to each tool.                        *)
(***************************************************************************)
NoArgs == [none |-> TRUE]

\* an optional parameter: absent or one of the values vs
Opt(vs) == {Absent} \cup {<<v>> : v \in vs}

P_cluster == {[cluster_name |-> "c1", resource_group_name |-> "rg"]}

P_nodepool ==
  {[cluster_name |-> "c1", resource_group_name |-> "rg", nodepool_name |-> "np1"]}

P_get_aks_clusters == {[state |-> s] : s \in {"", " ", "rg"}}

P_create_aks_cluster ==
  [resource_group_name : {"rg"}, cluster_name : {"c1"},
   node_count : Opt({3}), node_vm_size : Opt({"Standard_B2s"}),
   kubernetes_version : Opt({"1.29"})]

P_scale_aks_cluster ==
  [resource_group_name : {"rg"}, cluster_name : {"c1"}, node_count : {0, 5}]

P_upgrade_aks_cluster ==
  [resource_group_name : {"rg"}, cluster_name : {"c1"}, kubernetes_version : {"1.29"}]

P_get_aks_versions == [location : Opt({"", "westus"})]

P_add_aks_nodepool ==
  [resource_group_name : {"rg"}, cluster_name : {"c1"}, nodepool_name : {"np1"},
   node_count : Opt({3}), node_vm_size : Opt({"Standard_B2s"}),
   mode : Opt({"System"})]

P_addons ==
  [resource_group_name : {"rg"}, cluster_name : {"c1"},
   addons : {"monitoring", "monitoring,virtual-node"}]

P_update_aks_cluster ==
  [resource_group_name : {"rg"}, cluster_name : {"c1"},
   kubernetes_version : Opt({"1.29"}), auto_upgrade_channel : Opt({"", "stable"}),
   enable_node_public_ip : Opt({TRUE, FALSE}), tags : Opt({"env=dev"})]

P_check_aks_acr ==
  [resource_group_name : {"rg"}, cluster_name : {"c1"}, acr_name : {"acr1"}]

P_aks_command_invoke ==
  [resource_group_name : {"rg"}, cluster_name : {"c1"},
   command : {"kubectl get pods"}]

P_aks_nodepool_scale ==
  [resource_group_name : {"rg"}, cluster_name : {"c1"}, nodepool_name : {"np1"},
   node_count : {0, 5}]

P_aks_nodepool_upgrade ==
  [resource_group_name : {"rg"}, cluster_name : {"c1"}, nodepool_name : {"np1"},
   kubernetes_version : {"1.29"}]

P_aks_nodepool_update ==
  [resource_group_name : {"rg"}, cluster_name : {"c1"}, nodepool_name : {"np1"},
   max_pods : Opt({30}), enable_node_public_ip : Opt({TRUE, FALSE}),
   labels : Opt({"env=dev"}), tags : Opt({"team=a"}),
   disable_cluster_autoscaler : Opt({TRUE}),
   enable_cluster_autoscaler : Opt({TRUE, FALSE}),
   min_count : Opt({0, 1}), max_count : Opt({3})]

P_create_aks_maintenance_config ==
  [resource_group_name : {"rg"}, cluster_name : {"c1"}, config_name : {"m1"},
   schedule_type : {"Weekly", "weekly", "AbsoluteMonthly", "RelativeMonthly"},
   day_of_week : Opt({"", "Monday"}), day_of_month : Opt({0, 15}),
   start_hour : Opt({0}), duration_hours : Opt({8})]

P_maintenance_config ==
  [resource_group_name : {"rg"}, cluster_name : {"c1"}, config_name : {"m1"}]

P_analyze_k8s_cluster ==
  [explain : Opt({FALSE}), filter : Opt({"Pod"}), namespace : Opt({""}),
   with_doc : Opt({TRUE}),
   output_format : Opt({"", "text", "json", "JSON", "Json", "yaml", "xml"}),
   anonymize : Opt({TRUE}), backend : Opt({"openai"})]

P_k8sgpt_configure_auth ==
  [provider : Opt({"openai"}), api_key : Opt({"", "sk-1"})]

P_get_alerts == [state : {"WA", "CA"}]

P_get_forecast == [latitude : {<<47, 6>>}, longitude : {<<-122, 3>>, <<0, 0>>}]

(***************************************************************************)
(* The state of the server: its catalog and the tool calls in flight.      *)
(***************************************************************************)
\* mcp.run() has not ended, has returned, has raised
Running == [kind |-> "running", name |-> "", text |-> "", isException |-> FALSE]
RunReturned == [kind |-> "returned", name |-> "", text |-> "", isException |-> FALSE]
RunRaised(name, text, isException) ==
  [kind |-> "raised", name |-> name, text |-> text, isException |-> isException]

VARIABLES
  ended,     \* how mcp.run() ended; Running while the server runs
  stderr,    \* the lines the script aks.py has printed to sys.stderr
  uncaught,  \* the exception that left the script aks.py, "" when none
  registry,  \* the @mcp.tool() registrations init_tools made, in order
  other,     \* a second tool call the server handles at the same time
  pc,        \* "start" (before init_tools), "idle", "wait" (blocked in an
             \* external call), "done", or "exited" (the script has ended)
  tool,      \* the name of the tool being called
  args,      \* the parameters the caller supplied
  calls,     \* the external calls the handler issued, in order
  outcomes,  \* the outcomes of the completed external calls, in order
  result,    \* the str the handler returned
  raised     \* the exception that escaped the handler, "" when none

vars == <<ended, stderr, uncaught, registry, other, pc, tool, args, calls, outcomes, result, raised>>

\* the functions init_aks_tools decorates with @mcp.tool(), in source order
AksToolNames ==
  <<"get_aks_clusters", "show_aks_cluster", "set_aks_credentials",
    "create_aks_cluster", "delete_aks_cluster", "scale_aks_cluster",
    "upgrade_aks_cluster", "get_aks_versions", "get_aks_nodepool_list",
    "add_aks_nodepool", "delete_aks_nodepool", "enable_aks_addons",
    "disable_aks_addons", "get_aks_credentials_admin", "rotate_aks_certs",
    "install_aks_cli", "start_aks_cluster", "stop_aks_cluster",
    "update_aks_cluster", "check_aks_acr", "aks_command_invoke",
    "aks_nodepool_scale", "aks_nodepool_upgrade", "aks_nodepool_update",
    "aks_nodepool_show", "create_aks_maintenance_config",
    "list_aks_maintenance_configs", "delete_aks_maintenance_config",
    "get_aks_upgrade_profile">>

\* the functions init_weather_tools decorates with @mcp.tool(): its first one
\* is a copy of the get_aks_clusters of init_aks_tools
WeatherToolNames == <<"get_aks_clusters", "get_alerts", "get_forecast">>

\* the functions init_k8s_tools decorates with @mcp.tool()
K8sToolNames ==
  <<"analyze_k8s_cluster", "k8sgpt_configure_auth", "k8sgpt_list_filters">>

\* the registrations reg followed by one registration per name, made by the
\* function by
Register(reg, names, by) ==
  reg \o [i \in 1..Len(names) |-> [name |-> names[i], by |-> by]]

init_aks_tools(reg) == Register(reg, AksToolNames, "init_aks_tools")
init_weather_tools(reg) == Register(reg, WeatherToolNames, "init_weather_tools")
init_k8s_tools(reg) == Register(reg, K8sToolNames, "init_k8s_tools")

\* the names a caller can dispatch to
Catalog == {registry[i].name : i \in 1..Len(registry)}

\* a tool call nobody has made yet
IdleCall ==
  [pc |-> "idle", tool |-> "", args |-> NoArgs, calls |-> <<>>,
   outcomes |-> <<>>, result |-> <<>>, raised |-> ""]

\* the first tool call, as a record like the second one
First ==
  [pc |-> pc, tool |-> tool, args |-> args, calls |-> calls,
   outcomes |-> outcomes, result |-> result, raised |-> raised]

\* the call c is inside subprocess.run: the handler is a coroutine, but
\* subprocess.run is a plain blocking call, so the event loop's only thread
\* stays in it until the child process ends
InSubprocess(c) == c.pc = "wait" /\ c.calls[Len(c.calls)].kind = "proc"

\* the handler registered under the name t, resumed with the outcomes outs
\* of the external calls it has issued so far
Handler(t, a, outs) ==
  CASE t = "get_aks_clusters" -> get_aks_clusters(a, outs)
    [] t = "show_aks_cluster" -> show_aks_cluster(a, outs)
    [] t = "set_aks_credentials" -> set_aks_credentials(a, outs)
    [] t = "create_aks_cluster" -> create_aks_cluster(a, outs)
    [] t = "delete_aks_cluster" -> delete_aks_cluster(a, outs)
    [] t = "scale_aks_cluster" -> scale_aks_cluster(a, outs)
    [] t = "upgrade_aks_cluster" -> upgrade_aks_cluster(a, outs)
    [] t = "get_aks_versions" -> get_aks_versions(a, outs)
    [] t = "get_aks_nodepool_list" -> get_aks_nodepool_list(a, outs)
    [] t = "add_aks_nodepool" -> add_aks_nodepool(a, outs)
    [] t = "delete_aks_nodepool" -> delete_aks_nodepool(a, outs)
    [] t = "enable_aks_addons" -> enable_aks_addons(a, outs)
    [] t = "disable_aks_addons" -> disable_aks_addons(a, outs)
    [] t = "get_aks_credentials_admin" -> get_aks_credentials_admin(a, outs)
    [] t = "rotate_aks_certs" -> rotate_aks_certs(a, outs)
    [] t = "install_aks_cli" -> install_aks_cli(a, outs)
    [] t = "start_aks_cluster" -> start_aks_cluster(a, outs)
    [] t = "stop_aks_cluster" -> stop_aks_cluster(a, outs)
    [] t = "update_aks_cluster" -> update_aks_cluster(a, outs)
    [] t = "check_aks_acr" -> check_aks_acr(a, outs)
    [] t = "aks_command_invoke" -> aks_command_invoke(a, outs)
    [] t = "aks_nodepool_scale" -> aks_nodepool_scale(a, outs)
    [] t = "aks_nodepool_upgrade" -> aks_nodepool_upgrade(a, outs)
    [] t = "aks_nodepool_update" -> aks_nodepool_update(a, outs)
    [] t = "aks_nodepool_show" -> aks_nodepool_show(a, outs)
    [] t = "create_aks_maintenance_config" -> create_aks_maintenance_config(a, outs)
    [] t = "list_aks_maintenance_configs" -> list_aks_maintenance_configs(a, outs)
    [] t = "delete_aks_maintenance_config" -> delete_aks_maintenance_config(a, outs)
    [] t = "get_aks_upgrade_profile" -> get_aks_upgrade_profile(a, outs)
    [] t = "analyze_k8s_cluster" -> analyze_k8s_cluster(a, outs)
    [] t = "k8sgpt_configure_auth" -> k8sgpt_configure_auth(a, outs)
    [] t = "k8sgpt_list_filters" -> k8sgpt_list_filters(a, outs)
    [] t = "get_alerts" -> get_alerts(a, outs)
    [] t = "get_forecast" -> get_forecast(a, outs)

\* the handler runs up to its next external call, its return or its raise
Advance(e, cs) ==
  /\ pc' = IF e.kind = "await" THEN "wait" ELSE "done"
  /\ calls' = IF e.kind = "await" THEN Append(cs, e.call) ELSE cs
  /\ result' = e.text
  /\ raised' = e.exc

\* the server dispatches a call of tool t with parameters a to its handler,
\* which runs to the effect e
Invoke(t, a, e) ==
  /\ t \in Catalog
  /\ ~InSubprocess(other)
  /\ tool' = t
  /\ args' = a
  /\ outcomes' = <<>>
  /\ \E eff \in {e} : Advance(eff, <<>>)
  /\ UNCHANGED <<ended, stderr, uncaught, registry, other>>

\* a timeout on the wait: the handler resumes although the external call has
\* delivered no outcome
Complete_timeout(o) ==
  /\ outcomes' = outcomes
  /\ Advance(Return(<<"Error: the command timed out">>), calls)
  /\ UNCHANGED <<ended, stderr, uncaught, registry, other, tool, args>>

\* the pending external call completes with outcome o and the handler resumes
Complete(o) ==
  /\ outcomes' = Append(outcomes, o)
  /\ \E e \in {Handler(tool, args, Append(outcomes, o))} : Advance(e, calls)
  /\ UNCHANGED <<ended, stderr, uncaught, registry, other, tool, args>>

Init ==
  /\ ended = Running
  /\ stderr = <<>>
  /\ uncaught = ""
  /\ registry = <<>>
  /\ other = IdleCall
  /\ pc = "start"
  /\ tool = ""
  /\ args = NoArgs
  /\ calls = <<>>
  /\ outcomes = <<>>
  /\ result = <<>>
  /\ raised = ""

\* toolcase.init_tools(mcp), which aks.py runs before mcp.run()
init_tools ==
  /\ pc = "start"
  /\ registry' = init_k8s_tools(init_weather_tools(init_aks_tools(registry)))
  /\ pc' = "idle"
  /\ UNCHANGED <<ended, stderr, uncaught, other, tool, args, calls, outcomes, result, raised>>

Call_get_aks_clusters ==
  /\ pc = "idle"
  /\ \E a \in P_get_aks_clusters :
        Invoke("get_aks_clusters", a,
               get_aks_clusters(a, <<>>))

Call_show_aks_cluster ==
  /\ pc = "idle"
  /\ \E a \in P_cluster : Invoke("show_aks_cluster", a, show_aks_cluster(a, <<>>))

Call_set_aks_credentials ==
  /\ pc = "idle"
  /\ \E a \in P_cluster : Invoke("set_aks_credentials", a, set_aks_credentials(a, <<>>))

Call_create_aks_cluster ==
  /\ pc = "idle"
  /\ \E a \in P_create_aks_cluster :
        Invoke("create_aks_cluster", a,
               create_aks_cluster(a, <<>>))

Call_delete_aks_cluster ==
  /\ pc = "idle"
  /\ \E a \in P_cluster : Invoke("delete_aks_cluster", a, delete_aks_cluster(a, <<>>))

Call_scale_aks_cluster ==
  /\ pc = "idle"
  /\ \E a \in P_scale_aks_cluster :
        Invoke("scale_aks_cluster", a,
               scale_aks_cluster(a, <<>>))

Call_upgrade_aks_cluster ==
  /\ pc = "idle"
  /\ \E a \in P_upgrade_aks_cluster :
        Invoke("upgrade_aks_cluster", a,
               upgrade_aks_cluster(a, <<>>))

Call_get_aks_versions ==
  /\ pc = "idle"
  /\ \E a \in P_get_aks_versions :
        Invoke("get_aks_versions", a,
               get_aks_versions(a, <<>>))

Call_get_aks_nodepool_list ==
  /\ pc = "idle"
  /\ \E a \in P_cluster :
        Invoke("get_aks_nodepool_list", a,
               get_aks_nodepool_list(a, <<>>))

Call_add_aks_nodepool ==
  /\ pc = "idle"
  /\ \E a \in P_add_aks_nodepool :
        Invoke("add_aks_nodepool", a,
               add_aks_nodepool(a, <<>>))

Call_delete_aks_nodepool ==
  /\ pc = "idle"
  /\ \E a \in P_nodepool : Invoke("delete_aks_nodepool", a, delete_aks_nodepool(a, <<>>))

Call_enable_aks_addons ==
  /\ pc = "idle"
  /\ \E a \in P_addons : Invoke("enable_aks_addons", a, enable_aks_addons(a, <<>>))

Call_disable_aks_addons ==
  /\ pc = "idle"
  /\ \E a \in P_addons : Invoke("disable_aks_addons", a, disable_aks_addons(a, <<>>))

Call_get_aks_credentials_admin ==
  /\ pc = "idle"
  /\ \E a \in P_cluster :
        Invoke("get_aks_credentials_admin", a,
               get_aks_credentials_admin(a, <<>>))

Call_rotate_aks_certs ==
  /\ pc = "idle"
  /\ \E a \in P_cluster : Invoke("rotate_aks_certs", a, rotate_aks_certs(a, <<>>))

Call_install_aks_cli ==
  /\ pc = "idle"
  /\ Invoke("install_aks_cli", NoArgs, install_aks_cli(NoArgs, <<>>))

Call_start_aks_cluster ==
  /\ pc = "idle"
  /\ \E a \in P_cluster : Invoke("start_aks_cluster", a, start_aks_cluster(a, <<>>))

Call_stop_aks_cluster ==
  /\ pc = "idle"
  /\ \E a \in P_cluster : Invoke("stop_aks_cluster", a, stop_aks_cluster(a, <<>>))

Call_update_aks_cluster ==
  /\ pc = "idle"
  /\ \E a \in P_update_aks_cluster :
        Invoke("update_aks_cluster", a,
               update_aks_cluster(a, <<>>))

Call_check_aks_acr ==
  /\ pc = "idle"
  /\ \E a \in P_check_aks_acr : Invoke("check_aks_acr", a, check_aks_acr(a, <<>>))

Call_aks_command_invoke ==
  /\ pc = "idle"
  /\ \E a \in P_aks_command_invoke :
        Invoke("aks_command_invoke", a,
               aks_command_invoke(a, <<>>))

Call_aks_nodepool_scale ==
  /\ pc = "idle"
  /\ \E a \in P_aks_nodepool_scale :
        Invoke("aks_nodepool_scale", a,
               aks_nodepool_scale(a, <<>>))

Call_aks_nodepool_upgrade ==
  /\ pc = "idle"
  /\ \E a \in P_aks_nodepool_upgrade :
        Invoke("aks_nodepool_upgrade", a,
               aks_nodepool_upgrade(a, <<>>))

Call_aks_nodepool_update ==
  /\ pc = "idle"
  /\ \E a \in P_aks_nodepool_update :
        Invoke("aks_nodepool_update", a,
               aks_nodepool_update(a, <<>>))

Call_aks_nodepool_show ==
  /\ pc = "idle"
  /\ \E a \in P_nodepool : Invoke("aks_nodepool_show", a, aks_nodepool_show(a, <<>>))

Call_create_aks_maintenance_config ==
  /\ pc = "idle"
  /\ \E a \in P_create_aks_maintenance_config :
        Invoke("create_aks_maintenance_config", a,
               create_aks_maintenance_config(a, <<>>))

Call_list_aks_maintenance_configs ==
  /\ pc = "idle"
  /\ \E a \in P_cluster :
        Invoke("list_aks_maintenance_configs", a,
               list_aks_maintenance_configs(a, <<>>))

Call_delete_aks_maintenance_config ==
  /\ pc = "idle"
  /\ \E a \in P_maintenance_config :
        Invoke("delete_aks_maintenance_config", a,
               delete_aks_maintenance_config(a, <<>>))

Call_get_aks_upgrade_profile ==
  /\ pc = "idle"
  /\ \E a \in P_cluster :
        Invoke("get_aks_upgrade_profile", a,
               get_aks_upgrade_profile(a, <<>>))

Call_analyze_k8s_cluster ==
  /\ pc = "idle"
  /\ \E a \in P_analyze_k8s_cluster :
        Invoke("analyze_k8s_cluster", a,
               analyze_k8s_cluster(a, <<>>))

Call_k8sgpt_configure_auth ==
  /\ pc = "idle"
  /\ \E a \in P_k8sgpt_configure_auth :
        Invoke("k8sgpt_configure_auth", a,
               k8sgpt_configure_auth(a, <<>>))

Call_k8sgpt_list_filters ==
  /\ pc = "idle"
  /\ Invoke("k8sgpt_list_filters", NoArgs, k8sgpt_list_filters(NoArgs, <<>>))

Call_get_alerts ==
  /\ pc = "idle"
  /\ \E a \in P_get_alerts : Invoke("get_alerts", a, get_alerts(a, <<>>))

Call_get_forecast ==
  /\ pc = "idle"
  /\ \E a \in P_get_forecast : Invoke("get_forecast", a, get_forecast(a, <<>>))

\* what mcp.run() can raise: name, str(e), and whether the class derives
\* from Exception (KeyboardInterrupt and SystemExit derive from BaseException
\* only)
RunErrors ==
  {RunRaised("RuntimeError", "Event loop is closed", TRUE),
   RunRaised("BrokenPipeError", "[Errno 32] Broken pipe", TRUE),
   RunRaised("KeyboardInterrupt", "", FALSE),
   RunRaised("SystemExit", "1", FALSE)}

\* print(f"Server shutdown with error: {e}", file=sys.stderr)
ErrorReport(e) == <<"Server shutdown with error: ", e.text>>

\* print("Server has been shutdown", file=sys.stderr)
ShutdownNotice == <<"Server has been shutdown">>

\* "except Exception as e" catches what mcp.run() ended with
Caught(e) == e.kind = "raised" /\ e.isException

\* the script's "__main__" block with the finally clause left out
main_without_finally(e) ==
  /\ pc' = "exited"
  /\ ended' = e
  /\ stderr' = stderr \o (IF Caught(e) THEN <<ErrorReport(e)>> ELSE <<>>)
  /\ uncaught' = IF e.kind = "raised" /\ ~Caught(e) THEN e.name ELSE ""
  /\ UNCHANGED <<registry, other, tool, args, calls, outcomes, result, raised>>

\* the script's "__main__" block once mcp.run() has ended with e: "except
\* Exception" reports e, any other exception stays in flight, "finally" prints
\* the notice, and what is in flight leaves the script
main(e) ==
  /\ pc' = "exited"
  /\ ended' = e
  /\ stderr' = stderr \o (IF Caught(e) THEN <<ErrorReport(e)>> ELSE <<>>)
                      \o <<ShutdownNotice>>
  /\ uncaught' = IF e.kind = "raised" /\ ~Caught(e) THEN e.name ELSE ""
  /\ UNCHANGED <<registry, other, tool, args, calls, outcomes, result, raised>>

\* mcp.run() returns between two requests: the transport was closed
run_returns ==
  /\ pc = "idle"
  /\ other.pc = "idle"
  /\ main(RunReturned)

\* mcp.run() raises between two requests
run_raises ==
  /\ pc = "idle"
  /\ other.pc = "idle"
  /\ \E e \in RunErrors : main(e)

\* the external call the handler is blocked in
Pending == calls[Len(calls)]

\* the child process terminates with an exit code and its captured output
ProcessExits ==
  /\ pc = "wait"
  /\ Pending.kind = "proc"
  /\ \E rc \in ExitCodes, out \in StdoutsFor(tool), err \in StderrsFor(tool) :
        Complete(ProcExit(rc, out, err))

\* the program is not on the execution path: subprocess.run raises
\* FileNotFoundError
ProcessNotFound ==
  /\ pc = "wait"
  /\ Pending.kind = "proc"
  /\ Complete(ProcNotFound)

\* the program cannot be executed: subprocess.run raises PermissionError
ProcessDenied ==
  /\ pc = "wait"
  /\ Pending.kind = "proc"
  /\ Complete(ProcDenied)

\* the weather service replies to the GET
HttpReplies ==
  /\ pc = "wait"
  /\ Pending.kind = "http"
  /\ ~InSubprocess(other)
  /\ Pending.url.t = "str"
  /\ \E st \in HttpStatuses, body \in BodiesFor(tool, Len(calls)) :
        Complete(HttpReply(st, body))

\* the GET fails without a reply: a timeout or connection failure, or a URL
\* that is not a str, which client.get rejects before sending anything
HttpFails ==
  /\ pc = "wait"
  /\ Pending.kind = "http"
  /\ ~InSubprocess(other)
  /\ IF Pending.url.t = "str"
     THEN \E why \in HttpFailures : Complete(HttpFailed(why))
     ELSE Complete(HttpFailed("badurl"))

\* the server sends the handler's result to the caller; nothing is kept
Respond ==
  /\ pc = "done"
  /\ ~InSubprocess(other)
  /\ pc' = "idle"
  /\ tool' = ""
  /\ args' = NoArgs
  /\ calls' = <<>>
  /\ outcomes' = <<>>
  /\ result' = <<>>
  /\ raised' = ""
  /\ UNCHANGED <<ended, stderr, uncaught, registry, other>>

Next ==
  \/ init_tools
  \/ Call_get_aks_clusters
  \/ Call_show_aks_cluster
  \/ Call_set_aks_credentials
  \/ Call_create_aks_cluster
  \/ Call_delete_aks_cluster
  \/ Call_scale_aks_cluster
  \/ Call_upgrade_aks_cluster
  \/ Call_get_aks_versions
  \/ Call_get_aks_nodepool_list
  \/ Call_add_aks_nodepool
  \/ Call_delete_aks_nodepool
  \/ Call_enable_aks_addons
  \/ Call_disable_aks_addons
  \/ Call_get_aks_credentials_admin
  \/ Call_rotate_aks_certs
  \/ Call_install_aks_cli
  \/ Call_start_aks_cluster
  \/ Call_stop_aks_cluster
  \/ Call_update_aks_cluster
  \/ Call_check_aks_acr
  \/ Call_aks_command_invoke
  \/ Call_aks_nodepool_scale
  \/ Call_aks_nodepool_upgrade
  \/ Call_aks_nodepool_update
  \/ Call_aks_nodepool_show
  \/ Call_create_aks_maintenance_config
  \/ Call_list_aks_maintenance_configs
  \/ Call_delete_aks_maintenance_config
  \/ Call_get_aks_upgrade_profile
  \/ Call_analyze_k8s_cluster
  \/ Call_k8sgpt_configure_auth
  \/ Call_k8sgpt_list_filters
  \/ Call_get_alerts
  \/ Call_get_forecast
  \/ ProcessExits
  \/ ProcessNotFound
  \/ ProcessDenied
  \/ HttpReplies
  \/ HttpFails
  \/ Respond
  \/ run_returns
  \/ run_raises

Spec == Init /\ [][Next]_vars

\* every spawned process ends: it exits, or it fails to start
ProcessEnds == ProcessExits \/ ProcessNotFound \/ ProcessDenied

\* the server under the assumption that no child process runs forever
FairSpec == Spec /\ WF_vars(ProcessEnds)

(***************************************************************************)
(* Two tool calls in flight.  The server starts one task per request on    *)
(* one event loop; a handler gives the loop up only at an await.           *)
(***************************************************************************)
\* the tools the second call is made to
ConcurrentTools ==
  {"show_aks_cluster", "check_aks_acr", "aks_nodepool_show",
   "get_aks_upgrade_profile", "get_alerts", "get_forecast"}

\* the parameters a caller can supply to one of these tools
ParamsOf(t) ==
  CASE t = "show_aks_cluster" -> P_cluster
    [] t = "check_aks_acr" -> P_check_aks_acr
    [] t = "aks_nodepool_show" -> P_nodepool
    [] t = "get_aks_upgrade_profile" -> P_cluster
    [] t = "get_alerts" -> P_get_alerts
    [] t = "get_forecast" -> P_get_forecast

\* the handler the second call dispatches to
OtherHandler(t, a, outs) ==
  CASE t = "show_aks_cluster" -> show_aks_cluster(a, outs)
    [] t = "check_aks_acr" -> check_aks_acr(a, outs)
    [] t = "aks_nodepool_show" -> aks_nodepool_show(a, outs)
    [] t = "get_aks_upgrade_profile" -> get_aks_upgrade_profile(a, outs)
    [] t = "get_alerts" -> get_alerts(a, outs)
    [] t = "get_forecast" -> get_forecast(a, outs)

\* the call c after its handler ran to the effect e
Resume(c, e) ==
  [c EXCEPT !.pc = IF e.kind = "await" THEN "wait" ELSE "done",
            !.calls = IF e.kind = "await" THEN Append(@, e.call) ELSE @,
            !.result = e.text,
            !.raised = e.exc]

\* a dispatch that remembers an answered call: the command of a call made
\* after the first call has returned carries one more token
Other_Call_remembering ==
  /\ pc /= "start"
  /\ other.pc = "idle"
  /\ ~InSubprocess(First)
  /\ \E t \in ConcurrentTools \cap Catalog : \E a \in ParamsOf(t) :
     \E e \in {OtherHandler(t, a, <<>>)} :
        \E f \in {IF pc = "done" /\ e.kind = "await"
                  THEN Await([e.call EXCEPT !.cmd = @ \o <<"--only-show-errors">>])
                  ELSE e} :
           other' = Resume([IdleCall EXCEPT !.tool = t, !.args = a], f)
  /\ UNCHANGED <<ended, stderr, uncaught, registry, pc, tool, args, calls, outcomes, result, raised>>

\* the server dispatches a second call while the first one is in flight
Other_Call ==
  /\ pc /= "start"
  /\ other.pc = "idle"
  /\ ~InSubprocess(First)
  /\ \E t \in ConcurrentTools \cap Catalog : \E a \in ParamsOf(t) :
     \E e \in {OtherHandler(t, a, <<>>)} :
        other' = Resume([IdleCall EXCEPT !.tool = t, !.args = a], e)
  /\ UNCHANGED <<ended, stderr, uncaught, registry, pc, tool, args, calls, outcomes, result, raised>>

\* the second call's handler reading the outcomes of the first call: state
\* shared between the two calls
Other_Complete_shared(o) ==
  /\ \E e \in {OtherHandler(other.tool, other.args, Append(outcomes, o))} :
        other' = Resume([other EXCEPT !.outcomes = Append(@, o)], e)
  /\ UNCHANGED <<ended, stderr, uncaught, registry, pc, tool, args, calls, outcomes, result, raised>>

\* the second call's pending external call completes with outcome o
Other_Complete(o) ==
  /\ \E e \in {OtherHandler(other.tool, other.args, Append(other.outcomes, o))} :
        other' = Resume([other EXCEPT !.outcomes = Append(@, o)], e)
  /\ UNCHANGED <<ended, stderr, uncaught, registry, pc, tool, args, calls, outcomes, result, raised>>

\* the outcomes the pending external call of the call c can have
OutcomesOf(c) ==
  LET p == c.calls[Len(c.calls)]
  IN IF p.kind = "proc"
     THEN {ProcExit(rc, out, err) :
             rc \in ExitCodes, out \in StdoutsFor(c.tool), err \in StderrsFor(c.tool)}
          \cup {ProcNotFound, ProcDenied}
     ELSE IF p.url.t = "str"
     THEN {HttpReply(st, body) :
             st \in HttpStatuses, body \in BodiesFor(c.tool, Len(c.calls))}
          \cup {HttpFailed(why) : why \in HttpFailures}
     ELSE {HttpFailed("badurl")}

\* the second call's external call ends: its child process, which the event
\* loop is blocked in, or its GET, once the event loop is free to resume it
Other_Completes ==
  /\ other.pc = "wait"
  /\ InSubprocess(other) \/ ~InSubprocess(First)
  /\ \E o \in OutcomesOf(other) : Other_Complete(o)

Other_Respond ==
  /\ other.pc = "done"
  /\ ~InSubprocess(First)
  /\ other' = IdleCall
  /\ UNCHANGED <<ended, stderr, uncaught, registry, pc, tool, args, calls, outcomes, result, raised>>

ConcurrentNext ==
  \/ init_tools
  \/ Call_show_aks_cluster
  \/ Call_check_aks_acr
  \/ Call_aks_nodepool_show
  \/ Call_get_aks_upgrade_profile
  \/ Call_get_alerts
  \/ Call_get_forecast
  \/ ProcessExits
  \/ ProcessNotFound
  \/ ProcessDenied
  \/ HttpReplies
  \/ HttpFails
  \/ Respond
  \/ Other_Call
  \/ Other_Completes
  \/ Other_Respond

Concurrent == Init /\ [][ConcurrentNext]_vars

(***************************************************************************)
(* Vocabulary of the properties.                                           *)
(***************************************************************************)
\* the last completed external call's outcome
LastOutcome == outcomes[Len(outcomes)]

\* the handler has finished after at least one external call
Finished == pc = "done" /\ outcomes /= <<>>

\* the set of tokens of a command
Tokens(cmd) == {cmd[i] : i \in 1..Len(cmd)}

\* the tools that parse the command's stdout as JSON
JsonTools ==
  {"get_aks_clusters", "show_aks_cluster", "get_aks_versions",
   "get_aks_nodepool_list", "aks_nodepool_show", "list_aks_maintenance_configs",
   "get_aks_upgrade_profile"}

\* the tools that hand the command's stdout to the caller as it is
PassThroughTools ==
  {"check_aks_acr", "aks_command_invoke", "k8sgpt_list_filters",
   "analyze_k8s_cluster"}

\* the optional parameters of each tool's signature
OptionalParams(t) ==
  CASE t = "create_aks_cluster" -> {"node_count", "node_vm_size", "kubernetes_version"}
    [] t = "get_aks_versions" -> {"location"}
    [] t = "add_aks_nodepool" -> {"node_count", "node_vm_size", "mode"}
    [] t = "update_aks_cluster" ->
         {"kubernetes_version", "auto_upgrade_channel", "enable_node_public_ip", "tags"}
    [] t = "aks_nodepool_update" ->
         {"max_pods", "enable_node_public_ip", "labels", "tags",
          "disable_cluster_autoscaler", "enable_cluster_autoscaler",
          "min_count", "max_count"}
    [] t = "create_aks_maintenance_config" ->
         {"day_of_week", "day_of_month", "start_hour", "duration_hours"}
    [] t = "analyze_k8s_cluster" ->
         {"explain", "filter", "namespace", "with_doc", "output_format",
          "anonymize", "backend"}
    [] t = "k8sgpt_configure_auth" -> {"provider", "api_key"}
    [] OTHER -> {}

\* the command-line flag that carries an optional parameter
FlagOf(p) ==
  CASE p = "node_count" -> "--node-count"
    [] p = "node_vm_size" -> "--node-vm-size"
    [] p = "kubernetes_version" -> "--kubernetes-version"
    [] p = "location" -> "--location"
    [] p = "mode" -> "--mode"
    [] p = "auto_upgrade_channel" -> "--auto-upgrade-channel"
    [] p = "enable_node_public_ip" -> "--enable-node-public-ip"
    [] p = "tags" -> "--tags"
    [] p = "max_pods" -> "--max-pods"
    [] p = "labels" -> "--labels"
    [] p = "disable_cluster_autoscaler" -> "--disable-cluster-autoscaler"
    [] p = "enable_cluster_autoscaler" -> "--enable-cluster-autoscaler"
    [] p = "min_count" -> "--min-count"
    [] p = "max_count" -> "--max-count"
    [] p = "day_of_week" -> "--day-of-week"
    [] p = "day_of_month" -> "--day-of-month"
    [] p = "start_hour" -> "--start-hour"
    [] p = "duration_hours" -> "--duration-hours"
    [] p = "explain" -> "--explain"
    [] p = "filter" -> "--filter"
    [] p = "namespace" -> "--namespace"
    [] p = "with_doc" -> "--with-doc"
    [] p = "output_format" -> "--output"
    [] p = "anonymize" -> "--anonymize"
    [] p = "backend" -> "--backend"
    [] p = "provider" -> "-p"
    [] p = "api_key" -> "--password"

\* the optional parameters whose declared default is neither None nor False
ValueDefaulted ==
  {"node_count", "node_vm_size", "mode", "duration_hours", "explain",
   "output_format", "provider"}

\* the caller supplied the required parameters only
OnlyRequired == \A p \in OptionalParams(tool) : args[p] = Absent

\* the commands the handler has spawned so far
Spawned == {i \in 1..Len(calls) : calls[i].kind = "proc"}

(***************************************************************************)
(* C1: every handler ends with a returned string on every path; no         *)
(* exception leaves a handler, whatever the external call answers.         *)
(***************************************************************************)
C1_EveryPathReturnsString == pc = "done" => raised = ""

(***************************************************************************)
(* C2: aks_nodepool_update with enable_cluster_autoscaler true and         *)
(* min_count or max_count absent returns the validation error and spawns   *)
(* no process, whatever the other optional parameters are; with both       *)
(* counts it spawns the command with --enable-cluster-autoscaler,          *)
(* --min-count and --max-count.                                            *)
(***************************************************************************)
AutoscalerValidationError ==
  <<"Error: min_count and max_count are required when enabling cluster autoscaler">>

C2_AutoscalerGuard ==
  (tool = "aks_nodepool_update" /\ args.enable_cluster_autoscaler = <<TRUE>>) =>
     IF args.min_count = Absent \/ args.max_count = Absent
     THEN /\ calls = <<>>
          /\ pc = "done"
          /\ raised = ""
          /\ result = AutoscalerValidationError
     ELSE /\ Len(calls) = 1
          /\ calls[1].kind = "proc"
          /\ "--enable-cluster-autoscaler" \in Tokens(calls[1].cmd)
          /\ Contains(<<"--min-count", ToString(args.min_count[1])>>, calls[1].cmd)
          /\ Contains(<<"--max-count", ToString(args.max_count[1])>>, calls[1].cmd)

\* the guard fired although other optional parameters were supplied
C2_Witness ==
  /\ tool = "aks_nodepool_update"
  /\ args.enable_cluster_autoscaler = <<TRUE>>
  /\ args.min_count /= Absent
  /\ args.max_count = Absent
  /\ args.max_pods /= Absent
  /\ args.disable_cluster_autoscaler /= Absent
  /\ pc = "done"
  /\ result = AutoscalerValidationError

(***************************************************************************)
(* C3: when a tool's command exits nonzero, the returned string carries    *)
(* the command's stderr verbatim if stderr is non-empty and its stdout if  *)
(* stderr is empty.                                                        *)
(***************************************************************************)
C3_NonzeroExitSurfacesDiagnostics ==
  (Finished /\ LastOutcome.kind = "exit" /\ LastOutcome.rc /= 0) =>
     /\ raised = ""
     /\ IF LastOutcome.stderr /= <<>>
        THEN Contains(LastOutcome.stderr, result)
        ELSE Contains(LastOutcome.stdout, result)

(***************************************************************************)
(* C4: when the executable of a tool's command is not on the execution     *)
(* path, the returned string is a not-installed message with an            *)
(* installation remedy, not the generic unexpected-error string.           *)
(***************************************************************************)
\* the messages of the source that tell the user how to install a program
InstallRemedies == {K8sgptNotInstalled}

C4_NotInstalledHasRemedy ==
  (Finished /\ LastOutcome.kind = "notfound") =>
     /\ raised = ""
     /\ result \in InstallRemedies
     /\ result[1] /= "Unexpected error: "

(***************************************************************************)
(* C5: when the command of a JSON-parsing tool exits zero with a stdout    *)
(* that is not valid JSON, the returned string is the tool's parse-failure *)
(* message and carries no exception text.                                  *)
(***************************************************************************)
ParseFailureMessages ==
  {<<"Error parsing Azure CLI output">>, <<"Error parsing node pool information">>,
   <<"Error parsing maintenance configurations">>,
   <<"Error parsing upgrade information">>}

C5_ParseFailureMessage ==
  (/\ tool \in JsonTools
   /\ Finished
   /\ LastOutcome.kind = "exit"
   /\ LastOutcome.rc = 0
   /\ ~json_loads(LastOutcome.stdout).ok) =>
     /\ raised = ""
     /\ result \in ParseFailureMessages
     /\ ~Contains(JSONDecodeErrorText, result)

LastValue ==
  IF json_loads(LastOutcome.stdout).ok THEN json_loads(LastOutcome.stdout).v
  ELSE JNull

\* the last external call succeeded
LastSucceeded ==
  \/ LastOutcome.kind = "exit" /\ LastOutcome.rc = 0
  \/ LastOutcome.kind = "reply" /\ LastOutcome.status = 200

\* the collection the tool renders is present and has no element
EmptyCollection ==
  \/ tool \in {"get_aks_clusters", "get_aks_nodepool_list",
               "list_aks_maintenance_configs"}
       /\ LastValue = JArr(<<>>)
  \/ tool = "get_aks_versions"
       /\ LastValue.t = "obj"
       /\ HasKey(LastValue, "orchestrators")
       /\ Lookup(LastValue, "orchestrators") = JArr(<<>>)
  \/ tool = "get_alerts"
       /\ LastValue.t = "obj"
       /\ HasKey(LastValue, "features")
       /\ Lookup(LastValue, "features") = JArr(<<>>)

\* the tool hands stdout to the caller and stdout is empty
EmptyPayload == tool \in PassThroughTools /\ LastOutcome.stdout = <<>>

NoneFoundSentences ==
  {<<"No AKS clusters found.">>,
   <<"No node pools found in AKS cluster '", "c1", "'.">>,
   <<"No maintenance configurations found for AKS cluster '", "c1", "'.">>,
   <<"No active alerts for this state.">>,
   <<"No issues found in the cluster.">>}

C7_EmptyResultIsNoneFound ==
  (Finished /\ LastSucceeded /\ (EmptyCollection \/ EmptyPayload)) =>
     /\ raised = ""
     /\ result /= <<>>
     /\ result \in NoneFoundSentences

(***************************************************************************)
(* C8: analyze_k8s_cluster with output_format json in any letter case,     *)
(* after a command that exited zero: a stdout that parses as JSON comes    *)
(* back re-serialized with 2-space indentation, a stdout that does not     *)
(* parse comes back unchanged, and nothing is raised.                      *)
(***************************************************************************)
OpenBrackets == {"[", "{"}
CloseBrackets == {"]", "}"}

\* the nesting depth of the text before position i
Depth(text, i) ==
  Cardinality({j \in 1..(i - 1) : text[j] \in OpenBrackets})
    - Cardinality({j \in 1..(i - 1) : text[j] \in CloseBrackets})

\* the first position after i that does not hold a space
AfterSpaces(text, i) ==
  CHOOSE j \in (i + 1)..(Len(text) + 1) :
     /\ j = Len(text) + 1 \/ text[j] /= " "
     /\ \A k \in (i + 1)..(j - 1) : text[k] = " "

\* the text is laid out as json.dumps(..., indent=2) lays a document out:
\* every element on a line of its own, indented by two spaces per level
TwoSpaceIndented(text) ==
  \A i \in 1..Len(text) :
     /\ text[i] = "\n" =>
          LET j == AfterSpaces(text, i)
          IN /\ j <= Len(text)
             /\ j - i - 1 = 2 * (Depth(text, j)
                                 - IF text[j] \in CloseBrackets THEN 1 ELSE 0)
     /\ text[i] \in OpenBrackets =>
          /\ i < Len(text)
          /\ text[i + 1] = "\n" \/ text[i + 1] \in CloseBrackets
     /\ text[i] = "," => (i < Len(text) /\ text[i + 1] = "\n")
     /\ text[i] = " " => (i > 1 /\ text[i - 1] \in {" ", "\n", ":"})

\* output_format asks for JSON, in some letter case
AsksJson == args.output_format \in {<<"json">>, <<"JSON">>, <<"Json">>}

C8_JsonModeReserializesOrFallsBack ==
  (/\ tool = "analyze_k8s_cluster"
   /\ AsksJson
   /\ Finished
   /\ LastOutcome.kind = "exit"
   /\ LastOutcome.rc = 0) =>
     /\ raised = ""
     /\ IF json_loads(LastOutcome.stdout).ok
        THEN /\ json_loads(result).ok
             /\ json_loads(result).v = json_loads(LastOutcome.stdout).v
             /\ TwoSpaceIndented(result)
        ELSE result = LastOutcome.stdout

\* an upper-case JSON request whose nested payload came back laid out anew
C8_Witness ==
  /\ tool = "analyze_k8s_cluster"
  /\ args.output_format = <<"JSON">>
  /\ Finished
  /\ LastOutcome.kind = "exit"
  /\ LastOutcome.rc = 0
  /\ json_loads(LastOutcome.stdout).ok
  /\ result /= LastOutcome.stdout
  /\ Contains(<<"\n", " ", " ", " ", " ", " ", " ", "\"">>, result)

(***************************************************************************)
(* C9: in get_forecast the second request is issued only after the points  *)
(* request has returned a value, its URL is the properties.forecast value  *)
(* of the points response, and no other second request is issued.         *)
(***************************************************************************)
\* the points request got a 2xx reply whose body parsed to a non-empty value
PointsReturned ==
  /\ outcomes /= <<>>
  /\ outcomes[1].kind = "reply"
  /\ outcomes[1].status = 200
  /\ json_loads(outcomes[1].stdout).ok
  /\ Truthy(json_loads(outcomes[1].stdout).v)

C9_SecondRequestFollowsPoints ==
  tool = "get_forecast" =>
     /\ Len(calls) <= 2
     /\ \A i \in 1..Len(calls) : calls[i].kind = "http"
     /\ Len(calls) >= 1 =>
          calls[1].url = JStr("https://api.weather.gov/points/"
                              \o FloatStr(args.latitude) \o ","
                              \o FloatStr(args.longitude))
     /\ Len(calls) = 2 =>
          /\ PointsReturned
          /\ LET points == json_loads(outcomes[1].stdout).v
             IN /\ points.t = "obj"
                /\ HasKey(points, "properties")
                /\ Lookup(points, "properties").t = "obj"
                /\ HasKey(Lookup(points, "properties"), "forecast")
                /\ calls[2].url = Lookup(Lookup(points, "properties"), "forecast")

\* the step that issues the second request is the step in which the points
\* request's outcome arrives
C9_SecondRequestStep ==
  [][(tool' = "get_forecast" /\ Len(calls') = 2 /\ Len(calls) < 2) =>
       (pc = "wait" /\ Len(calls) = 1 /\ outcomes = <<>> /\ Len(outcomes') = 1)]_vars

\* the second request went to the URL the points response named
C9_Witness ==
  /\ tool = "get_forecast"
  /\ Len(calls) = 2
  /\ pc = "wait"
  /\ calls[2].url = JStr(ForecastUrl)

(***************************************************************************)
(* C10: get_forecast renders exactly min(n, 5) blocks for a payload with n *)
(* periods: the first five in payload order, joined by the "---" line.     *)
(***************************************************************************)
Min(a, b) == IF a < b THEN a ELSE b

\* the forecast request got a 200 reply whose body is a payload of n periods
ForecastOf(n) ==
  /\ tool = "get_forecast"
  /\ pc = "done"
  /\ Len(outcomes) = 2
  /\ outcomes[2].kind = "reply"
  /\ outcomes[2].status = 200
  /\ outcomes[2].stdout = Tok(ForecastPayload(n))

\* the positions of the name line of period i in a text
NameAt(text, i) ==
  {k \in 1..Len(text) : text[k] = "Period " \o ToString(i)}

C10_FirstFivePeriods ==
  \A n \in 0..MaxPeriods :
     ForecastOf(n) =>
        /\ raised = ""
        /\ Count(<<"\n---\n">>, result) = (IF n = 0 THEN 0 ELSE Min(n, 5) - 1)
        /\ \A i \in 1..n :
              Cardinality(NameAt(result, i)) = (IF i <= 5 THEN 1 ELSE 0)
        /\ \A i \in 1..Min(n, 5) : \A j \in 1..Min(n, 5) :
              i < j => \A x \in NameAt(result, i), y \in NameAt(result, j) :
                          /\ x < y
                          /\ Count(<<"\n---\n">>, SubSeq(result, x, y)) = j - i
        /\ \A i \in 1..Min(n, 5) :
              Contains(<<"\n    Forecast: ", "Forecast " \o ToString(i)>>, result)

\* a payload with more than five periods came back as five blocks
C10_Witness ==
  /\ ForecastOf(6)
  /\ Count(<<"\n---\n">>, result) = 4
  /\ NameAt(result, 5) /= {}
  /\ NameAt(result, 6) = {}

(***************************************************************************)
(* C11: make_nws_request sends one GET per call and returns None on every  *)
(* failure (timeout, connection failure, non-2xx status, body that is not  *)
(* JSON); it raises nothing to its caller and sends no second request.     *)
(***************************************************************************)
WeatherTools == {"get_alerts", "get_forecast"}

\* the GET with outcome o failed
GetFailed(o) ==
  \/ o.kind # "reply"
  \/ o.status \notin 200..299
  \/ ~json_loads(o.stdout).ok

C11_FetcherReturnsNoneOnFailure ==
  tool \in WeatherTools =>
     /\ Len(calls) <= Len(outcomes) + 1
     /\ \A i \in 1..Len(outcomes) :
           GetFailed(outcomes[i]) =>
              /\ make_nws_request(outcomes[i]) = <<>>
              /\ Len(calls) = i
              /\ pc = "done"
              /\ raised = ""

\* a 404 reply whose body is a JSON document ended the call after one GET
C11_Witness ==
  /\ tool = "get_forecast"
  /\ Len(outcomes) = 1
  /\ outcomes[1].kind = "reply"
  /\ outcomes[1].status = 404
  /\ json_loads(outcomes[1].stdout).ok
  /\ Len(calls) = 1
  /\ pc = "done"
  /\ raised = ""

(***************************************************************************)
(* C12: when the fetcher returns None the weather tool returns a fixed     *)
(* "unable to fetch" message: get_alerts for the alerts response,          *)
(* get_forecast for the points response, without a second request, and     *)
(* another one for the forecast response.                                  *)
(***************************************************************************)
C12_AbsentResponseMessage ==
  /\ (tool = "get_alerts" /\ Len(outcomes) = 1
        /\ make_nws_request(outcomes[1]) = <<>>) =>
        /\ pc = "done"
        /\ raised = ""
        /\ result = <<"Unable to fetch alerts or no alerts found.">>
  /\ (tool = "get_forecast" /\ Len(outcomes) >= 1
        /\ make_nws_request(outcomes[1]) = <<>>) =>
        /\ pc = "done"
        /\ raised = ""
        /\ result = <<"Unable to fetch forecast data for this location.">>
        /\ Len(calls) = 1
  /\ (tool = "get_forecast" /\ Len(outcomes) = 2
        /\ make_nws_request(outcomes[2]) = <<>>) =>
        /\ pc = "done"
        /\ raised = ""
        /\ result = <<"Unable to fetch detailed forecast.">>

\* the forecast request timed out after the points request had succeeded
C12_Witness ==
  /\ tool = "get_forecast"
  /\ Len(outcomes) = 2
  /\ outcomes[2].kind = "timeout"
  /\ result = <<"Unable to fetch detailed forecast.">>

(***************************************************************************)
(* C13: after init_tools has run every tool name of the catalog is         *)
(* registered once: no name is registered by more than one of              *)
(* init_aks_tools, init_weather_tools and init_k8s_tools.                  *)
(***************************************************************************)
C13_ToolNamesUnique ==
  \A i \in 1..Len(registry) : \A j \in 1..Len(registry) :
     registry[i].name = registry[j].name => i = j

(***************************************************************************)
(* C14: while one tool call waits for its child process to exit, the       *)
(* server can start another tool call: the wait is a point at which the    *)
(* handler gives the event loop up.                                        *)
(***************************************************************************)
C14_ProcessWaitYields ==
  (InSubprocess(First) /\ other.pc = "idle") => ENABLED Other_Call

(***************************************************************************)
(* C15: whatever the interleaving of two tool calls, each call's external  *)
(* calls and its returned string are those the call produces when it runs  *)
(* alone against the same external responses; what one call raises or      *)
(* returns leaves the other call as it is.                                 *)
(***************************************************************************)
\* the external calls the handler of t issues when it runs alone with the
\* parameters a and its external calls answer outs, in order
CallsAlone(t, a, outs) ==
  LET n == Len(outs) + (IF Handler(t, a, outs).kind = "await" THEN 1 ELSE 0)
  IN [i \in 1..n |-> Handler(t, a, SubSeq(outs, 1, i - 1)).call]

\* the call c is where its handler is when it runs alone
AsAlone(c) ==
  c.pc \in {"wait", "done"} =>
     LET e == Handler(c.tool, c.args, c.outcomes)
     IN /\ c.calls = CallsAlone(c.tool, c.args, c.outcomes)
        /\ (c.pc = "wait") = (e.kind = "await")
        /\ c.pc = "done" => (c.result = e.text /\ c.raised = e.exc)

C16_DayFieldEnforced ==
  tool = "create_aks_maintenance_config" =>
     \A i \in Spawned :
        /\ Lower(args.schedule_type) = "weekly" =>
              "--day-of-week" \in Tokens(calls[i].cmd)
        /\ Lower(args.schedule_type) = "absolutemonthly" =>
              "--day-of-month" \in Tokens(calls[i].cmd)

(***************************************************************************)
(* C17: k8sgpt_configure_auth without an api_key (absent or empty) never   *)
(* spawns "k8sgpt auth add" and, when the k8sgpt version probe succeeded,  *)
(* returns the manual instructions naming the provider; with an api_key    *)
(* and a successful probe it spawns                                        *)
(* "k8sgpt auth add -p <provider> --password <api_key>" once.              *)
(***************************************************************************)
\* the positions of the "k8sgpt auth add" commands among the calls
AuthAdds ==
  {i \in 1..Len(calls) :
     /\ calls[i].kind = "proc"
     /\ Len(calls[i].cmd) >= 3
     /\ SubSeq(calls[i].cmd, 1, 3) = <<"k8sgpt", "auth", "add">>}

\* "k8sgpt --version" ran and exited zero
K8sgptInstalled ==
  outcomes /= <<>> /\ outcomes[1].kind = "exit" /\ outcomes[1].rc = 0

\* the provider the call names, "azureopenai" when the caller names none
NamedProvider == IF args.provider = <<>> THEN "azureopenai" ELSE args.provider[1]

ReadOnlyTools ==
  {"check_aks_acr", "show_aks_cluster", "aks_nodepool_show",
   "get_aks_upgrade_profile"}

\* the second call repeats the first one
Repeated == tool \in ReadOnlyTools /\ other.tool = tool /\ other.args = args

CommandFailed(o) ==
  \/ o.kind \in {"notfound", "denied"}
  \/ o.kind = "exit" /\ o.rc /= 0

C19_NoRetry ==
  /\ \A i \in Spawned : \A j \in Spawned : calls[i].cmd = calls[j].cmd => i = j
  /\ \A i \in 1..Len(outcomes) :
        CommandFailed(outcomes[i]) =>
           /\ Len(calls) = i
           /\ pc = "done"
           /\ raised = ""

\* "k8sgpt auth add" failed after the version probe had succeeded
C19_Witness ==
  /\ tool = "k8sgpt_configure_auth"
  /\ Len(outcomes) = 2
  /\ outcomes[2].kind = "exit"
  /\ outcomes[2].rc /= 0
  /\ Len(calls) = 2
  /\ pc = "done"
  /\ result[1] = "Error configuring k8sgpt authentication: "

(***************************************************************************)
(* C20: a tool call that spawned a process returns if and only if the      *)
(* process ends: when every spawned process ends the call returns, and a   *)
(* call that waits for its process leaves the wait by nothing but the end  *)
(* of that process (no timeout).                                           *)
(***************************************************************************)
\* how a spawned process ends
ProcessEndings == {"exit", "notfound", "denied"}

C20_ReturnsIffProcessEnds ==
  /\ (InSubprocess(First) ~> pc = "done")
  /\ [][InSubprocess(First) =>
          /\ Len(outcomes') = Len(outcomes) + 1
          /\ outcomes'[Len(outcomes')].kind \in ProcessEndings]_vars

\* start_aks_cluster returned after its az process had exited
C20_Witness ==
  /\ tool = "start_aks_cluster"
  /\ pc = "done"
  /\ Len(outcomes) = 1
  /\ outcomes[1].kind = "exit"
  /\ raised = ""

(***************************************************************************)
(* C21: when the run loop has ended, by returning or by raising, the last  *)
(* line on the error stream is the shutdown notice; an exception from the  *)
(* run loop is reported on the error stream and does not leave the script. *)
(***************************************************************************)
\* the script reported the exception e on the error stream
Reported(e) == \E i \in 1..Len(stderr) : stderr[i] = ErrorReport(e)

C22_UpdateSpawnsWithNoPrompt ==
  tool = "update_aks_cluster" /\ pc \in {"wait", "done"} =>
     /\ Len(calls) = 1
     /\ calls[1].kind = "proc"
     /\ SubSeq(calls[1].cmd, 1, 8) =
           <<"az", "aks", "update", "--resource-group", args.resource_group_name,
             "--name", args.cluster_name, "--yes">>
     /\ calls[1].env = <<"AZURE_CORE_NO_PROMPT=true">>
     /\ (pc = "done" /\ outcomes[1].kind = "exit" /\ outcomes[1].rc = 0) =>
           result = <<"AKS cluster '", args.cluster_name, "' update initiated.">>

(***************************************************************************)
(* C23: in update_aks_cluster and aks_nodepool_update a supplied           *)
(* enable_node_public_ip, False included, is rendered in the command as    *)
(* the token "true" or "false" after --enable-node-public-ip; the flag is  *)
(* left out only when the parameter is absent.                             *)
(***************************************************************************)
\* the tokens that follow --enable-node-public-ip in cmd
PublicIpTokens(cmd) ==
  {cmd[i + 1] : i \in {j \in 1..(Len(cmd) - 1) : cmd[j] = "--enable-node-public-ip"}}

\* a call of tool t that passed the parameter validation renders the flag
RendersPublicIp(t) ==
  (tool = t /\ pc \in {"wait", "done"} /\ result /= AutoscalerValidationError) =>
     IF args.enable_node_public_ip = Absent
     THEN \A i \in Spawned : "--enable-node-public-ip" \notin Tokens(calls[i].cmd)
     ELSE /\ Len(calls) = 1
          /\ calls[1].kind = "proc"
          /\ PublicIpTokens(calls[1].cmd) =
                {IF args.enable_node_public_ip[1] THEN "true" ELSE "false"}

C23_PublicIpRenderedLowercase ==
  /\ RendersPublicIp("update_aks_cluster")
  /\ RendersPublicIp("aks_nodepool_update")

(***************************************************************************)
(* C24: nested optional substructures are rendered only when present and   *)
(* non-empty: aks_nodepool_show emits the Labels and Taints sections only  *)
(* for non-empty nodeLabels / nodeTaints, and list_aks_maintenance_configs *)
(* emits the "Day of Week" and "Day of Month" lines only for a schedule    *)
(* whose dayOfWeek / dayOfMonth value is present and non-empty.            *)
(***************************************************************************)
\* the object o has a value under k that is neither null nor empty
PresentNonEmpty(o, k) ==
  /\ HasKey(o, k)
  /\ Lookup(o, k) \notin {JNull, JStr(""), JArr(<<>>), JObj(<<>>, <<>>)}

\* the schedule object of a maintenance configuration
ScheduleOf(c) ==
  GetOr(GetOr(GetOr(c, "properties", JObj(<<>>, <<>>)),
              "maintenanceWindow", JObj(<<>>, <<>>)),
        "schedule", JObj(<<>>, <<>>))

\* the number of configurations in the list v whose schedule has a value
\* under k
SchedulesWith(v, k) ==
  Cardinality({i \in 1..Len(v.items) : PresentNonEmpty(ScheduleOf(v.items[i]), k)})

\* the tool rendered the command's output
Rendered(t, header) ==
  /\ tool = t
  /\ Finished
  /\ LastSucceeded
  /\ raised = ""
  /\ result /= <<>>
  /\ result[1] = header

C24_SubstructuresOnlyWhenNonEmpty ==
  /\ Rendered("aks_nodepool_show", "Node pool '") =>
        /\ Contains(<<"Labels:">>, result) <=> PresentNonEmpty(LastValue, "nodeLabels")
        /\ Contains(<<"Taints:">>, result) <=> PresentNonEmpty(LastValue, "nodeTaints")
  /\ Rendered("list_aks_maintenance_configs",
              "Maintenance configurations for cluster '") =>
        /\ Count(<<"  Day of Week: ">>, result) = SchedulesWith(LastValue, "dayOfWeek")
        /\ Count(<<"  Day of Month: ">>, result) = SchedulesWith(LastValue, "dayOfMonth")

(***************************************************************************)
(* C25: get_aks_versions renders each version's status flags as one        *)
(* parenthesized comma-joined tag list in fixed order: " (DEFAULT,         *)
(* PREVIEW)" when both flags are set, " (DEFAULT)" or " (PREVIEW)" when    *)
(* one is set, no suffix when neither is set; no raw boolean appears.      *)
(***************************************************************************)
\* the flag k of the orchestrator o is set
FlagSet(o, k) == HasKey(o, k) /\ Lookup(o, k) = JBool(TRUE)

\* the suffix for a version whose flags are isDefault and isPreview
TagSuffix(isDefault, isPreview) ==
  CASE isDefault /\ isPreview -> <<" (", "DEFAULT", ", ", "PREVIEW", ")">>
    [] isDefault /\ ~isPreview -> <<" (", "DEFAULT", ")">>
    [] ~isDefault /\ isPreview -> <<" (", "PREVIEW", ")">>
    [] OTHER -> <<>>

\* the orchestrators of the command's output
Orchestrators == GetOr(LastValue, "orchestrators", JArr(<<>>)).items

C25_StatusTags ==
  Rendered("get_aks_versions", "Available Kubernetes versions:") =>
     /\ result =
           Lines(<< <<"Available Kubernetes versions:">> >> \o
                 [i \in 1..Len(Orchestrators) |->
                    <<"- ">> \o GetStr(Orchestrators[i], "orchestratorVersion")
                    \o TagSuffix(FlagSet(Orchestrators[i], "default"),
                                 FlagSet(Orchestrators[i], "isPreview"))])
     /\ \A i \in 1..Len(result) : result[i] \notin {"True", "False", "true", "false"}

\* the four combinations of the two flags in one listing
C25_Witness ==
  /\ Rendered("get_aks_versions", "Available Kubernetes versions:")
  /\ Contains(<<"1.30", " (", "DEFAULT", ", ", "PREVIEW", ")", "\n">>, result)
  /\ Contains(<<"1.29", " (", "DEFAULT", ")", "\n">>, result)
  /\ Contains(<<"1.28", " (", "PREVIEW", ")", "\n">>, result)
  /\ result[Len(result)] = "1.27"

(***************************************************************************)
(* C26: a mutating AKS tool returns its success message if and only if its *)
(* command was spawned exactly once and exited with code zero; on every    *)
(* other path it returns a string that begins with "Error" or "Unexpected  *)
(* error".                                                                 *)
(***************************************************************************)
\* the tools that change a cluster, its node pools, its add-ons, its
\* maintenance configurations or the caller's credentials
MutatingTools ==
  {"create_aks_cluster", "delete_aks_cluster", "scale_aks_cluster",
   "upgrade_aks_cluster", "start_aks_cluster", "stop_aks_cluster",
   "update_aks_cluster", "add_aks_nodepool", "delete_aks_nodepool",
   "aks_nodepool_scale", "aks_nodepool_upgrade", "aks_nodepool_update",
   "enable_aks_addons", "disable_aks_addons", "set_aks_credentials",
   "get_aks_credentials_admin", "rotate_aks_certs",
   "create_aks_maintenance_config", "delete_aks_maintenance_config"}

\* the message the tool t returns for a command that succeeded
SuccessMessage(t, a) ==
  CASE t = "create_aks_cluster" ->
         <<"AKS cluster '", a.cluster_name, "' created successfully.">>
    [] t = "delete_aks_cluster" ->
         <<"AKS cluster '", a.cluster_name, "' deletion initiated.">>
    [] t = "scale_aks_cluster" ->
         <<"AKS cluster '", a.cluster_name, "' scaled to ", ToString(a.node_count),
           " nodes.">>
    [] t = "upgrade_aks_cluster" ->
         <<"AKS cluster '", a.cluster_name, "' upgrade to version ",
           a.kubernetes_version, " initiated.">>
    [] t = "start_aks_cluster" -> <<"AKS cluster '", a.cluster_name, "' is starting.">>
    [] t = "stop_aks_cluster" -> <<"AKS cluster '", a.cluster_name, "' is stopping.">>
    [] t = "update_aks_cluster" ->
         <<"AKS cluster '", a.cluster_name, "' update initiated.">>
    [] t = "add_aks_nodepool" ->
         <<"Node pool '", a.nodepool_name, "' added to AKS cluster '",
           a.cluster_name, "' successfully.">>
    [] t = "delete_aks_nodepool" ->
         <<"Node pool '", a.nodepool_name, "' deleted from AKS cluster '",
           a.cluster_name, "' successfully.">>
    [] t = "aks_nodepool_scale" ->
         <<"Node pool '", a.nodepool_name, "' in cluster '", a.cluster_name,
           "' scaled to ", ToString(a.node_count), " nodes.">>
    [] t = "aks_nodepool_upgrade" ->
         <<"Node pool '", a.nodepool_name, "' upgrade to version ",
           a.kubernetes_version, " initiated.">>
    [] t = "aks_nodepool_update" ->
         <<"Node pool '", a.nodepool_name, "' updated successfully.">>
    [] t = "enable_aks_addons" ->
         <<"Add-ons '", a.addons, "' enabled for AKS cluster '", a.cluster_name,
           "' successfully.">>
    [] t = "disable_aks_addons" ->
         <<"Add-ons '", a.addons, "' disabled for AKS cluster '", a.cluster_name,
           "' successfully.">>
    [] t = "set_aks_credentials" ->
         <<"Credentials for AKS cluster '", a.cluster_name, "' set successfully.">>
    [] t = "get_aks_credentials_admin" ->
         <<"Admin credentials for AKS cluster '", a.cluster_name,
           "' set successfully.">>
    [] t = "rotate_aks_certs" ->
         <<"Certificate rotation initiated for AKS cluster '", a.cluster_name, "'.">>
    [] t = "create_aks_maintenance_config" ->
         <<"Maintenance configuration '", a.config_name, "' created for cluster '",
           a.cluster_name, "'.">>
    [] t = "delete_aks_maintenance_config" ->
         <<"Maintenance configuration '", a.config_name, "' deleted.">>

\* the first chunks of the returned strings that begin with "Error" or
\* "Unexpected error"
ErrorLeads ==
  {"Unexpected error: ",
   "Error: min_count and max_count are required when enabling cluster autoscaler",
   "Error executing Azure CLI command: ", "Error creating AKS cluster: ",
   "Error deleting AKS cluster: ", "Error scaling AKS cluster: ",
   "Error upgrading AKS cluster: ", "Error starting AKS cluster: ",
   "Error stopping AKS cluster: ", "Error updating AKS cluster: ",
   "Error adding node pool: ", "Error deleting node pool: ",
   "Error scaling node pool: ", "Error upgrading node pool: ",
   "Error updating node pool: ", "Error enabling add-ons: ",
   "Error disabling add-ons: ", "Error getting admin credentials: ",
   "Error rotating certificates: ", "Error creating maintenance configuration: ",
   "Error deleting maintenance configuration: "}

\* the command was spawned exactly once and exited with code zero
SpawnedOnceExitedZero ==
  /\ Cardinality(Spawned) = 1
  /\ Len(calls) = 1
  /\ Len(outcomes) = 1
  /\ outcomes[1].kind = "exit"
  /\ outcomes[1].rc = 0

C26_SuccessIffExitZero ==
  (tool \in MutatingTools /\ pc = "done") =>
     /\ raised = ""
     /\ result /= <<>>
     /\ result = SuccessMessage(tool, args) <=> SpawnedOnceExitedZero
     /\ result /= SuccessMessage(tool, args) => result[1] \in ErrorLeads
     /\ SuccessMessage(tool, args)[1] \notin ErrorLeads

\* delete_aks_maintenance_config after its command exited zero
C26_Witness ==
  /\ tool = "delete_aks_maintenance_config"
  /\ pc = "done"
  /\ SpawnedOnceExitedZero
  /\ result = <<"Maintenance configuration '", "m1", "' deleted.">>

(***************************************************************************)
(* C27: analyze_k8s_cluster classifies a nonzero exit in a fixed order     *)
(* over the diagnostic text (stderr, or stdout when stderr is empty):      *)
(* "k8sgpt: command not found" gives the not-installed message; otherwise  *)
(* the substring "auth" gives the authentication-setup message and the     *)
(* diagnostic text is discarded; only otherwise is the diagnostic text     *)
(* returned after "Error executing k8sgpt: ".                              *)
(***************************************************************************)
\* the diagnostic text of the failed command
Diagnostic == IF outcomes[1].stderr /= <<>> THEN outcomes[1].stderr ELSE outcomes[1].stdout

\* analyze_k8s_cluster returned after its command exited nonzero
AnalyzeFailed ==
  /\ tool = "analyze_k8s_cluster"
  /\ pc = "done"
  /\ Len(outcomes) = 1
  /\ outcomes[1].kind = "exit"
  /\ outcomes[1].rc /= 0

C27_FailureClassifiedInOrder ==
  AnalyzeFailed =>
     /\ raised = ""
     /\ Contains(CommandNotFound, Diagnostic) => result = K8sgptNotInstalled
     /\ (~Contains(CommandNotFound, Diagnostic) /\ Contains(<<"auth">>, Diagnostic)) =>
           /\ result = K8sgptNeedsAuth
           /\ ~Contains(Diagnostic, result)
     /\ (~Contains(CommandNotFound, Diagnostic) /\ ~Contains(<<"auth">>, Diagnostic)) =>
           result = <<"Error executing k8sgpt: ">> \o Diagnostic

\* a diagnostic text with both markers is classified as not installed
C27_Witness ==
  /\ AnalyzeFailed
  /\ Contains(CommandNotFound, Diagnostic)
  /\ Contains(<<"auth">>, Diagnostic)
  /\ result = K8sgptNotInstalled

(***************************************************************************)
(* C28: analyze_k8s_cluster adds "--output <fmt>" only when output_format, *)
(* compared case-insensitively, is one of text, json, yaml, and passes the *)
(* lowercased value; for any other value the flag is left out, the command *)
(* is still run, and stdout is returned raw, or "No issues found in the    *)
(* cluster." when stdout is empty.                                         *)
(***************************************************************************)
\* output_format is one of the three formats, whatever its case
RecognisedFormat ==
  Lower(Default(args.output_format, "text")) \in {"text", "json", "yaml"}

C28_OutputFlagOnlyForKnownFormats ==
  (tool = "analyze_k8s_cluster" /\ pc \in {"wait", "done"}) =>
     /\ Len(calls) = 1
     /\ calls[1].kind = "proc"
     /\ SubSeq(calls[1].cmd, 1, 2) = <<"k8sgpt", "analyze">>
     /\ IF RecognisedFormat
        THEN /\ Count(<<"--output">>, calls[1].cmd) = 1
             /\ Contains(<<"--output", Lower(Default(args.output_format, "text"))>>,
                         calls[1].cmd)
        ELSE /\ "--output" \notin Tokens(calls[1].cmd)
             /\ (pc = "done" /\ outcomes[1].kind = "exit" /\ outcomes[1].rc = 0) =>
                   result = IF outcomes[1].stdout /= <<>> THEN outcomes[1].stdout
                            ELSE <<"No issues found in the cluster.">>

\* output_format "xml": no --output, and the JSON text on stdout comes back
\* as it is
C28_Witness ==
  /\ tool = "analyze_k8s_cluster"
  /\ args.output_format = <<"xml">>
  /\ pc = "done"
  /\ "--output" \notin Tokens(calls[1].cmd)
  /\ outcomes[1].kind = "exit"
  /\ outcomes[1].rc = 0
  /\ outcomes[1].stdout = <<"[", "]">>
  /\ result = <<"[", "]">>
====
